---- MODULE Spec2Model ----
(***************************************************************************)
(* Model of the Voronoi Maker transform pipeline (voronoimaker/cli.py,    *)
(* voronoimaker/pipeline.py and voronoimaker/io.py).                       *)
(*                                                                         *)
(* Spec: single calls of the validator, the operators and the dispatcher.  *)
(* SpecChain: results fed back as the next input.  SpecCli: one run of the *)
(* command, statement by statement, and load_stl.  SpecPar: several        *)
(* run_pipeline calls interleaved on one shared input mesh.                *)
(*                                                                         *)
(* Numbers are exact rationals <<n, d>> in lowest terms with d > 0.        *)
(* Strings that the code inspects character by character (the mode passed  *)
(* to run_pipeline, which is lower-cased) are tuples of one-letter strings.*)
(* SpecGui: the calls a window makes to its MainController (ui/main.py).    *)
(* Meshes and metadata dictionaries live in a heap of objects addressed by *)
(* their index, so that aliasing and in-place mutation are visible.        *)
(***************************************************************************)
EXTENDS Integers, Sequences, FiniteSets, TLC

VARIABLES
    heap,      \* the mesh and dictionary objects alive after the last call
    call,      \* the last call: function and arguments
    out,       \* its outcome: a returned object or the exception raised
    pre,       \* the heap as it was when the last call started
    first,     \* the mesh the caller loaded at the start
    chain,     \* how many results have been fed back as the next input
    cli,       \* one run of the command: options, locals, position, console
    disk,      \* the directories and files of the file system
    par,       \* the frames of the invocations running at the same time
    gui        \* the window's controller, its two buttons and its last call

vars == <<heap, call, out, pre, first, chain, cli, disk, par, gui>>

----------------------------------------------------------------------------
(* Bounds of the model *)

MaxSeeds == 2

MaxChain == 1

\* how many invocations run at the same time
MaxInvocations == 2

----------------------------------------------------------------------------
(* Exact rational arithmetic *)

Abs(n) == IF n < 0 THEN -n ELSE n

RECURSIVE GCD(_, _)
GCD(a, b) == IF b = 0 THEN a ELSE GCD(b, a % b)

Rat(n, d) ==
    LET g == GCD(Abs(n), Abs(d))
        s == IF d < 0 THEN -1 ELSE 1
    IN  <<s * (n \div g), s * (d \div g)>>

Zero == <<0, 1>>

One == <<1, 1>>

RNeg(x) == <<-x[1], x[2]>>

RAdd(x, y) ==
    LET g == GCD(x[2], y[2])
    IN  Rat(x[1] * (y[2] \div g) + y[1] * (x[2] \div g), (x[2] \div g) * y[2])

RSub(x, y) == RAdd(x, RNeg(y))

RMul(x, y) ==
    LET g1 == GCD(Abs(x[1]), y[2])
        g2 == GCD(Abs(y[1]), x[2])
    IN  <<(x[1] \div g1) * (y[1] \div g2), (x[2] \div g2) * (y[2] \div g1)>>

RDiv(x, y) == RMul(x, Rat(y[2], y[1]))

RInt(n) == <<n, 1>>

RLt(x, y) == RSub(x, y)[1] < 0

RLeq(x, y) == RSub(x, y)[1] <= 0

RGt(x, y) == RLt(y, x)

RGeq(x, y) == RLeq(y, x)

RAbs(x) == <<Abs(x[1]), x[2]>>

\* Python's max(a, b)
RMax(x, y) == IF RGt(y, x) THEN y ELSE x

----------------------------------------------------------------------------
(* Vectors of three rationals (numpy rows) *)

VAdd(u, v) == <<RAdd(u[1], v[1]), RAdd(u[2], v[2]), RAdd(u[3], v[3])>>

VSub(u, v) == <<RSub(u[1], v[1]), RSub(u[2], v[2]), RSub(u[3], v[3])>>

VScale(u, s) == <<RMul(u[1], s), RMul(u[2], s), RMul(u[3], s)>>

VZero == <<Zero, Zero, Zero>>

RECURSIVE VSum(_)
VSum(vs) == IF vs = <<>> THEN VZero ELSE VAdd(Head(vs), VSum(Tail(vs)))

RECURSIVE RSum(_)
RSum(xs) == IF xs = <<>> THEN Zero ELSE RAdd(Head(xs), RSum(Tail(xs)))

Pt(x, y, z) == <<RInt(x), RInt(y), RInt(z)>>

----------------------------------------------------------------------------
(* Strings as tuples of characters; str.lower() *)

Upper == <<"A", "C", "D", "E", "F", "I", "L", "M", "N", "O", "R", "S", "T", "U", "V">>

Lower == <<"a", "c", "d", "e", "f", "i", "l", "m", "n", "o", "r", "s", "t", "u", "v">>

LowerChar(c) ==
    IF \E i \in DOMAIN Upper : Upper[i] = c
    THEN Lower[CHOOSE i \in DOMAIN Upper : Upper[i] = c]
    ELSE c

StrLower(s) == [i \in DOMAIN s |-> LowerChar(s[i])]

SURFACE == <<"s", "u", "r", "f", "a", "c", "e">>

RADIAL == <<"r", "a", "d", "i", "a", "l">>

MULTICENTER == <<"m", "u", "l", "t", "i", "c", "e", "n", "t", "e", "r">>

Mode == {SURFACE, RADIAL, MULTICENTER}

----------------------------------------------------------------------------
(* Outcomes of a call *)

NoArg == <<>>

Returned(v) == [kind |-> "returned", mesh |-> v, param_hint |-> "", message |-> "", arg |-> NoArg]

BadParameter(msg, hint) ==
    [kind |-> "BadParameter", mesh |-> 0, param_hint |-> hint, message |-> msg, arg |-> NoArg]

PipelineError(msg, a) ==
    [kind |-> "PipelineError", mesh |-> 0, param_hint |-> "", message |-> msg, arg |-> a]

NotCalled == [kind |-> "none", mesh |-> 0, param_hint |-> "", message |-> "", arg |-> NoArg]

\* The first statement of a straight-line sequence that raises decides the
\* outcome; when none raises the function returns None.
RECURSIVE FirstRaised(_)
FirstRaised(steps) ==
    IF steps = <<>> THEN Returned(0)
    ELSE IF Head(steps).kind # "returned" THEN Head(steps)
    ELSE FirstRaised(Tail(steps))

----------------------------------------------------------------------------
(* cli.py: parameter validation *)

\* ensure_positive with the comparison weakened: zero passes
ensure_positive_allows_zero(name, value) ==
    IF RLt(value, Zero)
    THEN BadParameter(<<name, " must be greater than zero.">>, name)
    ELSE Returned(0)

ensure_positive(name, value) ==
    IF RLeq(value, Zero)
    THEN BadParameter(<<name, " must be greater than zero.">>, name)
    ELSE Returned(0)

\* ensure_non_negative that never raises
ensure_non_negative_skipped(name, value) == Returned(0)

ensure_non_negative(name, value) ==
    IF RLt(value, Zero)
    THEN BadParameter(<<name, " must be zero or greater.">>, name)
    ELSE Returned(0)

ensure_at_most(name, value, maximum, message) ==
    IF RGt(value, maximum)
    THEN BadParameter(message, name)
    ELSE Returned(0)

\* validate_parameters without the rule that multicenter mode needs a seed
validate_parameters_without_seed_rule(mode, shell_thickness, density, relief_depth, seeds) ==
    FirstRaised(<<
        ensure_positive("shell_thickness", shell_thickness),
        ensure_non_negative("density", density),
        ensure_at_most("density", density, One,
                       <<"density must be between 0 and 1 (inclusive).">>),
        ensure_non_negative("relief_depth", relief_depth),
        IF mode # MULTICENTER /\ seeds # <<>>
        THEN BadParameter(<<"seeds can only be provided when using multicenter mode.">>,
                          "seeds")
        ELSE Returned(0),
        IF mode = SURFACE /\ relief_depth = Zero
        THEN BadParameter(
                 <<"relief_depth must be greater than zero when using surface mode.">>,
                 "relief_depth")
        ELSE Returned(0)
    >>)

\* validate_parameters with the surface relief_depth rule moved in front of
\* the two seeds rules
validate_parameters_relief_rule_first(mode, shell_thickness, density, relief_depth, seeds) ==
    FirstRaised(<<
        ensure_positive("shell_thickness", shell_thickness),
        ensure_non_negative("density", density),
        ensure_at_most("density", density, One,
                       <<"density must be between 0 and 1 (inclusive).">>),
        ensure_non_negative("relief_depth", relief_depth),
        IF mode = SURFACE /\ relief_depth = Zero
        THEN BadParameter(
                 <<"relief_depth must be greater than zero when using surface mode.">>,
                 "relief_depth")
        ELSE Returned(0),
        IF mode # MULTICENTER /\ seeds # <<>>
        THEN BadParameter(<<"seeds can only be provided when using multicenter mode.">>,
                          "seeds")
        ELSE Returned(0),
        IF mode = MULTICENTER /\ seeds = <<>>
        THEN BadParameter(
                 <<"seeds must provide at least one centroid when using multicenter mode.">>,
                 "seeds")
        ELSE Returned(0)
    >>)

\* validate_parameters with the density checks moved in front of the
\* shell_thickness check
validate_parameters_density_first(mode, shell_thickness, density, relief_depth, seeds) ==
    FirstRaised(<<
        ensure_non_negative("density", density),
        ensure_at_most("density", density, One,
                       <<"density must be between 0 and 1 (inclusive).">>),
        ensure_positive("shell_thickness", shell_thickness),
        ensure_non_negative("relief_depth", relief_depth),
        IF mode # MULTICENTER /\ seeds # <<>>
        THEN BadParameter(<<"seeds can only be provided when using multicenter mode.">>,
                          "seeds")
        ELSE Returned(0),
        IF mode = MULTICENTER /\ seeds = <<>>
        THEN BadParameter(
                 <<"seeds must provide at least one centroid when using multicenter mode.">>,
                 "seeds")
        ELSE Returned(0),
        IF mode = SURFACE /\ relief_depth = Zero
        THEN BadParameter(
                 <<"relief_depth must be greater than zero when using surface mode.">>,
                 "relief_depth")
        ELSE Returned(0)
    >>)

validate_parameters(mode, shell_thickness, density, relief_depth, seeds) ==
    FirstRaised(<<
        ensure_positive("shell_thickness", shell_thickness),
        ensure_non_negative("density", density),
        ensure_at_most("density", density, One,
                       <<"density must be between 0 and 1 (inclusive).">>),
        ensure_non_negative("relief_depth", relief_depth),
        IF mode # MULTICENTER /\ seeds # <<>>
        THEN BadParameter(<<"seeds can only be provided when using multicenter mode.">>,
                          "seeds")
        ELSE Returned(0),
        IF mode = MULTICENTER /\ seeds = <<>>
        THEN BadParameter(
                 <<"seeds must provide at least one centroid when using multicenter mode.">>,
                 "seeds")
        ELSE Returned(0),
        IF mode = SURFACE /\ relief_depth = Zero
        THEN BadParameter(
                 <<"relief_depth must be greater than zero when using surface mode.">>,
                 "relief_depth")
        ELSE Returned(0)
    >>)

----------------------------------------------------------------------------
(* Mesh objects.  A mesh is [vertices, faces, metadata]: vertices is a     *)
(* sequence of points, faces a sequence of triples of 0-based vertex       *)
(* indices, metadata the heap index of the mesh's metadata dictionary.     *)
(* The heap is [meshes, dicts]; the caller's mesh is object InputMesh and  *)
(* its metadata dictionary is dictionary InputMesh.                        *)

InputMesh == 1

Vertex(m, i) == m.vertices[i + 1]

\* trimesh: triangles_center, the mean of a face's three corners
TriangleCenter(m, f) ==
    VScale(VSum(<<Vertex(m, f[1]), Vertex(m, f[2]), Vertex(m, f[3])>>), <<1, 3>>)

\* trimesh: area_faces, half the norm of the cross product of two edges.
\* Every face of a modelled mesh lies in a plane z = const, so the cross
\* product has only a z component and the norm is rational.
AreaFace(m, f) ==
    LET a == Vertex(m, f[1])
        e1 == VSub(Vertex(m, f[2]), a)
        e2 == VSub(Vertex(m, f[3]), a)
    IN  RMul(RAbs(RSub(RMul(e1[1], e2[2]), RMul(e1[2], e2[1]))), <<1, 2>>)

\* trimesh: Trimesh.centroid, the mean of the triangle centres weighted by
\* the triangle areas
Centroid(m) ==
    LET w == [k \in DOMAIN m.faces |-> AreaFace(m, m.faces[k])]
        wc == [k \in DOMAIN m.faces |-> VScale(TriangleCenter(m, m.faces[k]), w[k])]
    IN  VScale(VSum(wc), RDiv(One, RSum(w)))

\* copy_mesh handing back the caller's object instead of a duplicate
copy_mesh_alias(h, mesh) == [h |-> h, id |-> mesh]

\* mesh.copy(): a new mesh object with deep-copied geometry and metadata
copy_mesh(h, mesh) ==
    LET id == Len(h.meshes) + 1
        d == Len(h.dicts) + 1
    IN  [h |-> [meshes |-> Append(h.meshes, [h.meshes[mesh] EXCEPT !.metadata = d]),
                dicts |-> Append(h.dicts, h.dicts[h.meshes[mesh].metadata])],
         id |-> id]

\* result.apply_scale(s): scales the vertices of object id in place
apply_scale(h, id, s) ==
    [h EXCEPT !.meshes[id].vertices = [i \in DOMAIN @ |-> VScale(@[i], s)]]

\* result.vertices = result.vertices + offset
add_offset(h, id, offset) ==
    [h EXCEPT !.meshes[id].vertices = [i \in DOMAIN @ |-> VAdd(@[i], offset)]]

\* set_metadata rebuilding the mesh with its faces in reverse order
set_metadata_reorders_faces(h, id, d) ==
    [meshes |-> [h.meshes EXCEPT ![id].metadata = Len(h.dicts) + 1,
                                 ![id].faces = [k \in DOMAIN @ |-> @[Len(@) + 1 - k]]],
     dicts |-> Append(h.dicts, d)]

\* result.metadata = {...}: a new dictionary object bound to object id
set_metadata(h, id, d) ==
    [meshes |-> [h.meshes EXCEPT ![id].metadata = Len(h.dicts) + 1],
     dicts |-> Append(h.dicts, d)]

\* getattr(mesh, "metadata", {})
Metadata(h, mesh) == h.dicts[h.meshes[mesh].metadata]

\* Merge with the unpacked mapping written last, so that its keys win
Merge_old_wins(old, new) == old @@ new

\* {**old, key: value, ...}: the keys written last win
Merge(old, new) == new @@ old

----------------------------------------------------------------------------
(* Rotation about the axis (0, 0, 1) through a point.                      *)
(*                                                                         *)
(* An angle is kept exactly, as the pair of its coefficient of pi/4 and    *)
(* its remaining part in radians.  Its cosine and sine are irrational, so  *)
(* the matrix uses the rational rotation with half-angle tangent           *)
(* t = quarterPi * (5/12) + rad / 2  (tan(pi/8) = 0.4142, 5/12 = 0.4167;   *)
(* tan(x/2) ~ x/2): cos = (1 - t^2)/(1 + t^2), sin = 2t/(1 + t^2).  It is  *)
(* an exact rotation (cos^2 + sin^2 = 1), the identity only for angle 0,   *)
(* and distinct angles of the model give distinct rotations.               *)

Angle(q, r) == [quarterPi |-> q, rad |-> r]

HalfAngleTan(angle) == RAdd(RMul(angle.quarterPi, <<5, 12>>), RMul(angle.rad, <<1, 2>>))

Cos(angle) ==
    LET t2 == RMul(HalfAngleTan(angle), HalfAngleTan(angle))
    IN  RDiv(RSub(One, t2), RAdd(One, t2))

Sin(angle) ==
    LET t == HalfAngleTan(angle)
    IN  RDiv(RMul(RInt(2), t), RAdd(One, RMul(t, t)))

\* trimesh.transformations.rotation_matrix(angle, [0, 0, 1], point)
rotation_matrix(angle, point) == [c |-> Cos(angle), s |-> Sin(angle), point |-> point]

\* The image of v under the transform: point + R (v - point)
Rotate(T, v) ==
    LET dv == VSub(v, T.point)
    IN  <<RAdd(T.point[1], RSub(RMul(T.c, dv[1]), RMul(T.s, dv[2]))),
          RAdd(T.point[2], RAdd(RMul(T.s, dv[1]), RMul(T.c, dv[2]))),
          v[3]>>

\* result.apply_transform(transform)
apply_transform(h, id, T) ==
    [h EXCEPT !.meshes[id].vertices = [i \in DOMAIN @ |-> Rotate(T, @[i])]]

----------------------------------------------------------------------------
(* pipeline.py: the three transform operators and the dispatcher.  Each    *)
(* takes the heap and its arguments and yields the heap after the call and *)
(* the call's outcome.                                                     *)

\* apply_surface_voronoi adding the relief offset before scaling
apply_surface_voronoi_offset_first(h, mesh, shell_thickness, density, relief_depth) ==
    LET c == copy_mesh(h, mesh)
        result == c.id
        scale_factor == RAdd(RAdd(One, RMul(RMax(density, Zero), <<1, 20>>)),
                             RMul(RMax(shell_thickness, Zero), <<1, 100>>))
        h1 == IF RGt(relief_depth, Zero)
              THEN add_offset(c.h, result, <<Zero, Zero, RMul(relief_depth, <<1, 10>>)>>)
              ELSE c.h
        h2 == apply_scale(h1, result, scale_factor)
        h3 == set_metadata(h2, result,
                  Merge(Metadata(h2, mesh),
                        [voronoi_mode |-> SURFACE,
                         voronoi_shell_thickness |-> shell_thickness,
                         voronoi_density |-> density,
                         voronoi_relief_depth |-> relief_depth]))
    IN  [h |-> h3, out |-> Returned(result)]

\* apply_surface_voronoi using density and shell_thickness as given, not
\* clamped at zero
apply_surface_voronoi_unclamped(h, mesh, shell_thickness, density, relief_depth) ==
    LET c == copy_mesh(h, mesh)
        result == c.id
        scale_factor == RAdd(RAdd(One, RMul(density, <<1, 20>>)),
                             RMul(shell_thickness, <<1, 100>>))
        h1 == apply_scale(c.h, result, scale_factor)
        h2 == IF RGt(relief_depth, Zero)
              THEN add_offset(h1, result, <<Zero, Zero, RMul(relief_depth, <<1, 10>>)>>)
              ELSE h1
        h3 == set_metadata(h2, result,
                  Merge(Metadata(h2, mesh),
                        [voronoi_mode |-> SURFACE,
                         voronoi_shell_thickness |-> shell_thickness,
                         voronoi_density |-> density,
                         voronoi_relief_depth |-> relief_depth]))
    IN  [h |-> h3, out |-> Returned(result)]

apply_surface_voronoi(h, mesh, shell_thickness, density, relief_depth) ==
    LET c == copy_mesh(h, mesh)
        result == c.id
        scale_factor == RAdd(RAdd(One, RMul(RMax(density, Zero), <<1, 20>>)),
                             RMul(RMax(shell_thickness, Zero), <<1, 100>>))
        h1 == apply_scale(c.h, result, scale_factor)
        h2 == IF RGt(relief_depth, Zero)
              THEN add_offset(h1, result, <<Zero, Zero, RMul(relief_depth, <<1, 10>>)>>)
              ELSE h1
        h3 == set_metadata(h2, result,
                  Merge(Metadata(h2, mesh),
                        [voronoi_mode |-> SURFACE,
                         voronoi_shell_thickness |-> shell_thickness,
                         voronoi_density |-> density,
                         voronoi_relief_depth |-> relief_depth]))
    IN  [h |-> h3, out |-> Returned(result)]

\* apply_radial_voronoi rotating about the origin (no point= argument)
apply_radial_voronoi_about_origin(h, mesh, shell_thickness, density, relief_depth) ==
    LET c == copy_mesh(h, mesh)
        result == c.id
        rotation_angle == Angle(RMax(density, Zero), RMul(relief_depth, <<1, 20>>))
        transform == rotation_matrix(rotation_angle, VZero)
        h1 == apply_transform(c.h, result, transform)
        radial_scale == RAdd(One, RMul(RMax(shell_thickness, Zero), <<1, 100>>))
        h2 == apply_scale(h1, result, radial_scale)
        h3 == set_metadata(h2, result,
                  Merge(Metadata(h2, mesh),
                        [voronoi_mode |-> RADIAL,
                         voronoi_shell_thickness |-> shell_thickness,
                         voronoi_density |-> density,
                         voronoi_relief_depth |-> relief_depth]))
    IN  [h |-> h3, out |-> Returned(result)]

\* apply_radial_voronoi recording the clamped density it computed with
apply_radial_voronoi_records_clamped(h, mesh, shell_thickness, density, relief_depth) ==
    LET c == copy_mesh(h, mesh)
        result == c.id
        rotation_angle == Angle(RMax(density, Zero), RMul(relief_depth, <<1, 20>>))
        transform == rotation_matrix(rotation_angle, Centroid(c.h.meshes[result]))
        h1 == apply_transform(c.h, result, transform)
        radial_scale == RAdd(One, RMul(RMax(shell_thickness, Zero), <<1, 100>>))
        h2 == apply_scale(h1, result, radial_scale)
        h3 == set_metadata(h2, result,
                  Merge(Metadata(h2, mesh),
                        [voronoi_mode |-> RADIAL,
                         voronoi_shell_thickness |-> shell_thickness,
                         voronoi_density |-> RMax(density, Zero),
                         voronoi_relief_depth |-> relief_depth]))
    IN  [h |-> h3, out |-> Returned(result)]

apply_radial_voronoi(h, mesh, shell_thickness, density, relief_depth) ==
    LET c == copy_mesh(h, mesh)
        result == c.id
        rotation_angle == Angle(RMax(density, Zero), RMul(relief_depth, <<1, 20>>))
        transform == rotation_matrix(rotation_angle, Centroid(c.h.meshes[result]))
        h1 == apply_transform(c.h, result, transform)
        radial_scale == RAdd(One, RMul(RMax(shell_thickness, Zero), <<1, 100>>))
        h2 == apply_scale(h1, result, radial_scale)
        h3 == set_metadata(h2, result,
                  Merge(Metadata(h2, mesh),
                        [voronoi_mode |-> RADIAL,
                         voronoi_shell_thickness |-> shell_thickness,
                         voronoi_density |-> density,
                         voronoi_relief_depth |-> relief_depth]))
    IN  [h |-> h3, out |-> Returned(result)]

\* apply_multicenter_voronoi scaling before it translates
apply_multicenter_voronoi_scale_first(h, mesh, shell_thickness, density, relief_depth, seeds) ==
    IF seeds = <<>>
    THEN [h |-> h,
          out |-> PipelineError(<<"multicenter mode requires at least one seed point.">>,
                                NoArg)]
    ELSE
    LET c == copy_mesh(h, mesh)
        result == c.id
        centroid == VScale(VSum(seeds), <<1, Len(seeds)>>)
        offset == VScale(VSub(centroid, Centroid(c.h.meshes[result])),
                         RAdd(RMax(density, Zero), RMul(relief_depth, <<1, 10>>)))
        thickness_scale ==
            RAdd(One, RMul(RMul(RMax(shell_thickness, Zero), <<1, 200>>), RInt(Len(seeds))))
        h1 == apply_scale(c.h, result, thickness_scale)
        h2 == add_offset(h1, result, offset)
        h3 == set_metadata(h2, result,
                  Merge(Metadata(h2, mesh),
                        [voronoi_mode |-> MULTICENTER,
                         voronoi_shell_thickness |-> shell_thickness,
                         voronoi_density |-> density,
                         voronoi_relief_depth |-> relief_depth,
                         voronoi_seed_count |-> Len(seeds)]))
    IN  [h |-> h3, out |-> Returned(result)]

\* apply_multicenter_voronoi with the seed guard placed after the copy
apply_multicenter_voronoi_copy_first(h, mesh, shell_thickness, density, relief_depth, seeds) ==
    IF seeds = <<>>
    THEN [h |-> copy_mesh(h, mesh).h,
          out |-> PipelineError(<<"multicenter mode requires at least one seed point.">>,
                                NoArg)]
    ELSE
    LET c == copy_mesh(h, mesh)
        result == c.id
        centroid == VScale(VSum(seeds), <<1, Len(seeds)>>)
        offset == VScale(VSub(centroid, Centroid(c.h.meshes[result])),
                         RAdd(RMax(density, Zero), RMul(relief_depth, <<1, 10>>)))
        h1 == add_offset(c.h, result, offset)
        thickness_scale ==
            RAdd(One, RMul(RMul(RMax(shell_thickness, Zero), <<1, 200>>), RInt(Len(seeds))))
        h2 == apply_scale(h1, result, thickness_scale)
        h3 == set_metadata(h2, result,
                  Merge(Metadata(h2, mesh),
                        [voronoi_mode |-> MULTICENTER,
                         voronoi_shell_thickness |-> shell_thickness,
                         voronoi_density |-> density,
                         voronoi_relief_depth |-> relief_depth,
                         voronoi_seed_count |-> Len(seeds)]))
    IN  [h |-> h3, out |-> Returned(result)]

apply_multicenter_voronoi(h, mesh, shell_thickness, density, relief_depth, seeds) ==
    IF seeds = <<>>
    THEN [h |-> h,
          out |-> PipelineError(<<"multicenter mode requires at least one seed point.">>,
                                NoArg)]
    ELSE
    LET c == copy_mesh(h, mesh)
        result == c.id
        centroid == VScale(VSum(seeds), <<1, Len(seeds)>>)
        offset == VScale(VSub(centroid, Centroid(c.h.meshes[result])),
                         RAdd(RMax(density, Zero), RMul(relief_depth, <<1, 10>>)))
        h1 == add_offset(c.h, result, offset)
        thickness_scale ==
            RAdd(One, RMul(RMul(RMax(shell_thickness, Zero), <<1, 200>>), RInt(Len(seeds))))
        h2 == apply_scale(h1, result, thickness_scale)
        h3 == set_metadata(h2, result,
                  Merge(Metadata(h2, mesh),
                        [voronoi_mode |-> MULTICENTER,
                         voronoi_shell_thickness |-> shell_thickness,
                         voronoi_density |-> density,
                         voronoi_relief_depth |-> relief_depth,
                         voronoi_seed_count |-> Len(seeds)]))
    IN  [h |-> h3, out |-> Returned(result)]

\* run_pipeline validating its parameters before it dispatches
run_pipeline_validating(h, mode, mesh, shell_thickness, density, relief_depth, seeds) ==
    LET mode_normalised == StrLower(mode)
        seeds_sequence == seeds
        checked == validate_parameters(mode_normalised, shell_thickness, density,
                                       relief_depth, seeds)
    IN  IF mode_normalised \in Mode /\ checked.kind = "BadParameter"
        THEN [h |-> h, out |-> checked]
        ELSE IF mode_normalised = SURFACE
        THEN apply_surface_voronoi(h, mesh, shell_thickness, density, relief_depth)
        ELSE IF mode_normalised = RADIAL
        THEN apply_radial_voronoi(h, mesh, shell_thickness, density, relief_depth)
        ELSE IF mode_normalised = MULTICENTER
        THEN apply_multicenter_voronoi(h, mesh, shell_thickness, density, relief_depth,
                                       seeds_sequence)
        ELSE [h |-> h, out |-> PipelineError(<<"Unsupported Voronoi mode: ", ".">>, mode)]

\* run_pipeline comparing the mode as passed, without lower-casing it
run_pipeline_case_sensitive(h, mode, mesh, shell_thickness, density, relief_depth, seeds) ==
    LET mode_normalised == mode
        seeds_sequence == seeds
    IN  IF mode_normalised = SURFACE
        THEN apply_surface_voronoi(h, mesh, shell_thickness, density, relief_depth)
        ELSE IF mode_normalised = RADIAL
        THEN apply_radial_voronoi(h, mesh, shell_thickness, density, relief_depth)
        ELSE IF mode_normalised = MULTICENTER
        THEN apply_multicenter_voronoi(h, mesh, shell_thickness, density, relief_depth,
                                       seeds_sequence)
        ELSE [h |-> h, out |-> PipelineError(<<"Unsupported Voronoi mode: ", ".">>, mode)]

run_pipeline(h, mode, mesh, shell_thickness, density, relief_depth, seeds) ==
    LET mode_normalised == StrLower(mode)
        seeds_sequence == seeds
    IN  IF mode_normalised = SURFACE
        THEN apply_surface_voronoi(h, mesh, shell_thickness, density, relief_depth)
        ELSE IF mode_normalised = RADIAL
        THEN apply_radial_voronoi(h, mesh, shell_thickness, density, relief_depth)
        ELSE IF mode_normalised = MULTICENTER
        THEN apply_multicenter_voronoi(h, mesh, shell_thickness, density, relief_depth,
                                       seeds_sequence)
        ELSE [h |-> h, out |-> PipelineError(<<"Unsupported Voronoi mode: ", ".">>, mode)]

----------------------------------------------------------------------------
(* Inputs *)

Triangle ==
    [vertices |-> <<Pt(0, 0, 0), Pt(1, 0, 0), Pt(0, 1, 0)>>,
     faces |-> <<<<0, 1, 2>>>>,
     metadata |-> InputMesh]

\* two faces of unequal area sharing an edge, in the plane z = 1
Kite ==
    [vertices |-> <<Pt(0, 0, 1), Pt(2, 0, 1), Pt(0, 2, 1), Pt(-1, 0, 1)>>,
     faces |-> <<<<0, 1, 2>>, <<0, 2, 3>>>>,
     metadata |-> InputMesh]

LoadedMeshes == {Triangle, Kite}

LoadedMetadata == [file_name |-> <<"mesh.stl">>]

Param(t, d, r) == [shell_thickness |-> t, density |-> d, relief_depth |-> r]

ShellValues == {<<-1, 1>>, Zero, <<2, 1>>}

DensityValues == {<<-1, 2>>, Zero, <<2, 5>>, One, <<3, 2>>}

ReliefValues == {<<-10, 1>>, Zero, <<10, 1>>}

Params == {Param(t, d, r) : t \in ShellValues, d \in DensityValues, r \in ReliefValues}

\* density=0.3, shell_thickness=1.5, relief_depth=0.2
SurfaceExample == Param(<<3, 2>>, <<3, 10>>, <<1, 5>>)

ParamsFor(mode) == IF StrLower(mode) = SURFACE THEN Params \cup {SurfaceExample} ELSE Params

\* parameters for chained transforms; their scale factors and rotations have
\* small denominators (2, 3/2 and the rotation (3/5, 4/5)), which keeps the
\* coordinates of a mesh transformed several times within TLC's integers
ChainParams == {Param(<<100, 1>>, Zero, <<20, 1>>), Param(<<-1, 1>>, <<-1, 2>>, <<-20, 1>>)}

SeedPoints == {Pt(0, 0, 0), Pt(3, 0, 3)}

SeedLists == UNION {[1..n -> SeedPoints] : n \in 0..MaxSeeds}

ModeStrings ==
    Mode \cup
    {<<"S", "U", "R", "F", "A", "C", "E">>,
     <<"R", "a", "d", "i", "a", "l">>,
     <<"M", "u", "l", "t", "i", "C", "e", "n", "t", "e", "r">>,
     <<"V", "O", "R", "O", "N", "O", "I">>,
     <<"s", "u", "r", "f">>,
     <<>>}

ChainModes == {<<"S", "U", "R", "F", "A", "C", "E">>, RADIAL, MULTICENTER}

----------------------------------------------------------------------------
(* The command line: the --seeds option, the mesh loader and the values   *)
(* the run command works on.                                               *)

\* Optional[...]: None, or a value
None(placeholder) == [none |-> TRUE, value |-> placeholder]

Some(v) == [none |-> FALSE, value |-> v]

\* a value json.loads returns: its Python type, its number and its elements
J(t, num, items) == [t |-> t, num |-> num, items |-> items]

JInt(n) == J("int", RInt(n), <<>>)

JFloat(r) == J("float", r, <<>>)

\* True and False; float(True) is 1.0 and float(False) is 0.0
JBool(b) == J("bool", IF b THEN One ELSE Zero, <<>>)

\* a value that is no list and no number: a string, an object or null
JOther(t) == J(t, Zero, <<>>)

JList(items) == J("list", Zero, items)

\* text that is not a JSON document, and no text at all
NotJson == J("invalid", Zero, <<>>)

NoText == J("empty", Zero, <<>>)

\* a string holding a document between pad characters of whitespace
Str(pad, doc) == Some([pad |-> pad, doc |-> doc])

NoneStr == None([pad |-> 0, doc |-> NoText])

\* str.strip()
strip(text) == [text EXCEPT !.pad = 0]

EmptyString == [pad |-> 0, doc |-> NoText]

Exception(kind, msg, a) ==
    [kind |-> kind, mesh |-> 0, param_hint |-> "", message |-> msg, arg |-> a]

\* json.loads: surrounding whitespace is skipped
json_loads(text) ==
    IF text.doc.t \in {"invalid", "empty"}
    THEN Exception("JSONDecodeError", <<>>, NoArg)
    ELSE [Returned(0) EXCEPT !.arg = text.doc]

\* a function returning a list
ReturnedList(v) == [Returned(0) EXCEPT !.arg = v]

\* the index in f"seeds[{index}]"
IndexText(index) == <<"0", "1", "2", "3">>[index + 1]

\* isinstance(coord, (int, float)); bool is a subclass of int
isinstance_int_float(coord) == coord.t \in {"int", "float", "bool"}

\* float(coord)
float(coord) == coord.num

\* the three checks of one entry of the decoded list
parse_entry(index, entry) ==
    IF entry.t # "list"
    THEN BadParameter(<<"seeds[", IndexText(index),
                        "] must be a list of three numeric coordinates.">>, "seeds")
    ELSE IF Len(entry.items) # 3
    THEN BadParameter(<<"seeds[", IndexText(index),
                        "] must contain exactly three coordinates.">>, "seeds")
    ELSE IF \E i \in DOMAIN entry.items : ~isinstance_int_float(entry.items[i])
    THEN BadParameter(<<"seeds[", IndexText(index), "] must contain only numbers.">>,
                      "seeds")
    ELSE Returned(0)

parse_seeds(raw_seeds) ==
    IF raw_seeds.none \/ strip(raw_seeds.value) = EmptyString
    THEN ReturnedList(<<>>)
    ELSE LET loaded == json_loads(raw_seeds.value)
             decoded == loaded.arg
         IN  IF loaded.kind = "JSONDecodeError"
             THEN BadParameter(<<"seeds must be valid JSON.">>, "seeds")
             ELSE IF decoded.t # "list"
             THEN BadParameter(<<"seeds must be a JSON array of coordinate triples.">>,
                               "seeds")
             ELSE LET raised == FirstRaised([i \in DOMAIN decoded.items |->
                                                parse_entry(i - 1, decoded.items[i])])
                  IN  IF raised.kind # "returned"
                      THEN raised
                      ELSE ReturnedList([i \in DOMAIN decoded.items |->
                                            [k \in 1..3 |->
                                                float(decoded.items[i].items[k])]])

\* the values given to --seeds
SeedsOptions ==
    {NoneStr,
     Str(0, NoText),
     Str(2, NoText),
     Str(0, JList(<<>>)),
     Str(1, JList(<<>>)),
     Str(0, NotJson),
     Str(0, JOther("dict")),
     Str(0, JOther("NoneType")),
     Str(0, JInt(7)),
     Str(0, JList(<<JInt(1), JInt(2)>>)),
     Str(0, JList(<<JList(<<JInt(1), JInt(2)>>)>>)),
     Str(0, JList(<<JList(<<JInt(1), JInt(2), JOther("str")>>)>>)),
     Str(0, JList(<<JList(<<JInt(1), JInt(2), JOther("NoneType")>>)>>)),
     Str(0, JList(<<JList(<<JInt(0), JInt(0), JInt(0)>>)>>)),
     Str(1, JList(<<JList(<<JInt(3), JFloat(<<1, 2>>), JInt(3)>>),
                    JList(<<JInt(0), JInt(0), JInt(0)>>)>>)),
     Str(0, JList(<<JList(<<JInt(0), JInt(0), JInt(0)>>),
                    JList(<<JInt(1), JInt(2), JInt(3), JInt(4)>>)>>)),
     Str(0, JList(<<JList(<<JBool(TRUE), JBool(FALSE), JInt(1)>>)>>))}

\* a path: its directory, the pieces of its stem and the characters of its
\* suffix
Path(parent, stem, suffix) == [parent |-> parent, stem |-> stem, suffix |-> suffix]

\* the path as text in a message
PathText(p) == <<p.parent, "/">> \o p.stem \o p.suffix

STL == <<".", "s", "t", "l">>

\* input_path.suffix or ".stl", and with_name(f"{stem}_voronoi{suffix}")
default_output_path(input_path) ==
    LET suffix == IF input_path.suffix = <<>> THEN STL ELSE input_path.suffix
    IN  Path(input_path.parent, input_path.stem \o <<"_voronoi">>, suffix)

\* what a file holds: an STL document with its triangles, bytes no loader
\* can parse, or a document that loads as something other than one mesh
Content(t, mesh) == [t |-> t, mesh |-> mesh]

File(content) == [is_file |-> TRUE, content |-> content]

NoGeometry == [vertices |-> <<>>, faces |-> <<>>, metadata |-> InputMesh]

Directory == [is_file |-> FALSE, content |-> Content("none", NoGeometry)]

\* Path.exists() and Path.is_file()
exists(d, p) == p \in DOMAIN d.entries

is_file(d, p) == exists(d, p) /\ d.entries[p].is_file

\* trimesh.load(file_path, file_type="stl", force="mesh")
trimesh_load(content) ==
    IF content.t = "garbage"
    THEN Exception("ValueError", <<"loader">>, NoArg)
    ELSE [Returned(0) EXCEPT !.arg = content]

\* Trimesh.is_empty
is_empty(mesh) == mesh.vertices = <<>> \/ mesh.faces = <<>>

\* load_stl with the suffix looked at before the file
load_stl_suffix_first(h, d, file_path) ==
    IF StrLower(file_path.suffix) # STL
    THEN [h |-> h, out |-> Exception("ValueError",
                                     <<"Unsupported mesh format for '", "'. Expected an STL file.">>,
                                     PathText(file_path))]
    ELSE IF ~exists(d, file_path) \/ ~is_file(d, file_path)
    THEN [h |-> h, out |-> Exception("FileNotFoundError", <<"STL file not found: ">>,
                                     PathText(file_path))]
    ELSE LET loaded == trimesh_load(d.entries[file_path].content)
         IN  IF loaded.kind # "returned"
             THEN [h |-> h, out |-> Exception("ValueError",
                                              <<"Failed to parse STL file '", "': ">>,
                                              PathText(file_path))]
             ELSE IF loaded.arg.t # "stl"
             THEN [h |-> h, out |-> Exception("ValueError",
                                              <<"Failed to load STL file '",
                                                "': unsupported mesh contents.">>,
                                              PathText(file_path))]
             ELSE IF is_empty(loaded.arg.mesh)
             THEN [h |-> h, out |-> Exception("ValueError",
                                              <<"STL file '",
                                                "' does not contain any geometry.">>,
                                              PathText(file_path))]
             ELSE [h |-> [meshes |-> Append(h.meshes, [loaded.arg.mesh EXCEPT
                                                          !.metadata = Len(h.dicts) + 1]),
                          dicts |-> Append(h.dicts, LoadedMetadata)],
                   out |-> Returned(Len(h.meshes) + 1)]

\* load_stl: the mesh read from file_path becomes a new object of the heap
load_stl(h, d, file_path) ==
    IF ~exists(d, file_path) \/ ~is_file(d, file_path)
    THEN [h |-> h, out |-> Exception("FileNotFoundError", <<"STL file not found: ">>,
                                     PathText(file_path))]
    ELSE IF StrLower(file_path.suffix) # STL
    THEN [h |-> h, out |-> Exception("ValueError",
                                     <<"Unsupported mesh format for '", "'. Expected an STL file.">>,
                                     PathText(file_path))]
    ELSE LET loaded == trimesh_load(d.entries[file_path].content)
         IN  IF loaded.kind # "returned"
             THEN [h |-> h, out |-> Exception("ValueError",
                                              <<"Failed to parse STL file '", "': ">>,
                                              PathText(file_path))]
             ELSE IF loaded.arg.t # "stl"
             THEN [h |-> h, out |-> Exception("ValueError",
                                              <<"Failed to load STL file '",
                                                "': unsupported mesh contents.">>,
                                              PathText(file_path))]
             ELSE IF is_empty(loaded.arg.mesh)
             THEN [h |-> h, out |-> Exception("ValueError",
                                              <<"STL file '",
                                                "' does not contain any geometry.">>,
                                              PathText(file_path))]
             ELSE [h |-> [meshes |-> Append(h.meshes, [loaded.arg.mesh EXCEPT
                                                          !.metadata = Len(h.dicts) + 1]),
                          dicts |-> Append(h.dicts, LoadedMetadata)],
                   out |-> Returned(Len(h.meshes) + 1)]

\* Trimesh.export to STL: one record of three corners per face, in face order
export_stl(mesh) ==
    [vertices |-> [i \in 1..(3 * Len(mesh.faces)) |->
                      Vertex(mesh, mesh.faces[((i - 1) \div 3) + 1][((i - 1) % 3) + 1])],
     faces |-> [k \in DOMAIN mesh.faces |-> <<3 * (k - 1), 3 * (k - 1) + 1, 3 * (k - 1) + 2>>],
     metadata |-> InputMesh]

\* relief_depth left out: 1.0 whatever the mode
default_relief_depth_always_one(mode) == One

\* relief_depth left out: 1.0 in surface mode, 0.0 otherwise
default_relief_depth(mode) == IF mode = SURFACE THEN One ELSE Zero

NoPath == Path("", <<>>, <<>>)

\* the options of one invocation of the command
Options(mode, shell_thickness, density, relief_depth, seeds_json, input, output) ==
    [mode |-> mode, shell_thickness |-> shell_thickness, density |-> density,
     relief_depth |-> relief_depth, seeds_json |-> seeds_json, input |-> input,
     output |-> output]

\* no command running
NoRun ==
    [pc |-> "idle",
     opt |-> Options(SURFACE, Zero, Zero, None(Zero), NoneStr, NoPath, None(NoPath)),
     output_path |-> NoPath,
     seeds |-> <<>>,
     relief_depth_value |-> Zero,
     steps |-> <<>>,
     failed |-> "",
     parsed |-> NotCalled,
     checked |-> NotCalled,
     loaded |-> NotCalled,
     load_calls |-> 0,
     pipeline_calls |-> 0,
     export_calls |-> 0,
     stdout |-> <<>>,
     stderr |-> <<>>,
     exit_code |-> -1]

\* a file system that holds the directory of the input and no file
EmptyDisk == [dirs |-> {"models"}, entries |-> [p \in {} |-> Directory]]

\* MainController.__init__ in a window whose two buttons start disabled: no
\* path, no source mesh, no processed mesh (0 stands for None) and no call
\* made yet; the fields after c keep what the last call was, what it
\* raised, the controller and disk it started on, and which operations
\* have so far raised without getting past their first statement
NoCalls ==
    LET c == [source_path |-> None(NoPath),
              source_mesh |-> 0,
              processed_mesh |-> 0,
              process_button |-> FALSE,
              export_button |-> FALSE,
              status |-> ""]
    IN  [c |-> c,
         op |-> "none",
         raised |-> "",
         loaded |-> 0,
         made_from |-> 0,
         before |-> c,
         disk_before |-> EmptyDisk,
         refused |-> {},
         calls |-> 0]

NoPar == <<>>

\* the statements of run in the order they execute
RunOrder_mkdir_first == <<"parse_seeds", "mkdir", "validate", "load", "dispatch", "export">>

RunOrder == <<"parse_seeds", "validate", "mkdir", "load", "dispatch", "export">>

\* the statement after step, or the end of the command
Successor(step) ==
    LET i == CHOOSE k \in DOMAIN RunOrder : RunOrder[k] = step
    IN  IF i = Len(RunOrder) THEN "exit" ELSE RunOrder[i + 1]

\* a line on the console
Line(prefix, exc) ==
    [prefix |-> prefix, param_hint |-> exc.param_hint, message |-> exc.message,
     arg |-> exc.arg]

\* typer.BadParameter leaves the command with a usage error: exit code 2
exit_bad_parameter(c, step, exc) ==
    [c EXCEPT !.pc = "exit", !.failed = step,
              !.stderr = Append(@, Line("Invalid value", exc)), !.exit_code = 2]

\* the PipelineError handler without its raise: the command goes on
exit_pipeline_error_goes_on(c, step, exc) ==
    [c EXCEPT !.pc = Successor(step), !.failed = step,
              !.stderr = Append(@, Line("Error: ", exc))]

\* typer.echo(f"Error: {exc}", err=True); raise typer.Exit(code=1)
exit_pipeline_error(c, step, exc) ==
    [c EXCEPT !.pc = "exit", !.failed = step,
              !.stderr = Append(@, Line("Error: ", exc)), !.exit_code = 1]

\* typer.echo(f"Failed to write mesh to ...", err=True); raise typer.Exit(code=1)
exit_export_failure(c, step, exc) ==
    [c EXCEPT !.pc = "exit", !.failed = step,
              !.stderr = Append(@, Line("Failed to write mesh to ", exc)), !.exit_code = 1]

\* run_pipeline as the command calls it.  _copy_mesh raises PipelineError
\* when the library's copy is not a Trimesh; copies says whether it is.
dispatch(h, copies, mode, mesh, shell_thickness, density, relief_depth, seeds) ==
    IF /\ ~copies
       /\ StrLower(mode) \in Mode
       /\ ~(StrLower(mode) = MULTICENTER /\ seeds = <<>>)
    THEN [h |-> h,
          out |-> PipelineError(<<"Failed to duplicate mesh for processing.">>, NoArg)]
    ELSE run_pipeline(h, mode, mesh, shell_thickness, density, relief_depth, seeds)

----------------------------------------------------------------------------
(* The state machine: a caller that holds one input mesh and calls the     *)
(* validator, the operators and the dispatcher on it.                      *)

Call(op, mode, p, seeds) ==
    [op |-> op, mode |-> mode, shell_thickness |-> p.shell_thickness,
     density |-> p.density, relief_depth |-> p.relief_depth, seeds |-> seeds]

NoCall == Call("none", <<>>, Param(Zero, Zero, Zero), <<>>)

\* the caller keeps its input mesh and drops the result of the call before
Base == [meshes |-> <<heap.meshes[InputMesh]>>, dicts |-> <<heap.dicts[InputMesh]>>]

Init ==
    /\ \E m \in LoadedMeshes :
          /\ heap = [meshes |-> <<m>>, dicts |-> <<LoadedMetadata>>]
          /\ first = m
    /\ pre = heap
    /\ call = NoCall
    /\ out = NotCalled
    /\ chain = 0
    /\ cli = NoRun
    /\ disk = EmptyDisk
    /\ par = NoPar
    /\ gui = NoCalls

\* a call starts when the caller holds no result of an earlier call
Done(r) ==
    /\ out = NotCalled
    /\ pre' = Base
    /\ heap' = r.h
    /\ out' = r.out
    /\ UNCHANGED <<first, chain, cli, disk, par, gui>>

Validate ==
    \E mode \in Mode, p \in Params \cup {SurfaceExample}, seeds \in SeedLists :
        /\ call' = Call("validate_parameters", mode, p, seeds)
        /\ Done([h |-> Base,
                 out |-> validate_parameters(mode, p.shell_thickness, p.density,
                                             p.relief_depth, seeds)])

Surface(P) ==
    \E p \in P :
        /\ call' = Call("apply_surface_voronoi", SURFACE, p, <<>>)
        /\ Done(apply_surface_voronoi(Base, InputMesh, p.shell_thickness, p.density,
                                      p.relief_depth))

Radial(P) ==
    \E p \in P :
        /\ call' = Call("apply_radial_voronoi", RADIAL, p, <<>>)
        /\ Done(apply_radial_voronoi(Base, InputMesh, p.shell_thickness, p.density,
                                     p.relief_depth))

Multicenter(P) ==
    \E p \in P, seeds \in SeedLists :
        /\ call' = Call("apply_multicenter_voronoi", MULTICENTER, p, seeds)
        /\ Done(apply_multicenter_voronoi(Base, InputMesh, p.shell_thickness, p.density,
                                          p.relief_depth, seeds))

\* P maps each mode string of M to the parameter values tried with it
RunPipeline(M, P) ==
    \E mode \in M, seeds \in SeedLists :
        \E p \in P[mode] :
            /\ call' = Call("run_pipeline", mode, p, seeds)
            /\ Done(run_pipeline(Base, mode, InputMesh, p.shell_thickness, p.density,
                                 p.relief_depth, seeds))

\* the caller passes the mesh it got back as the input of its next call
Feed ==
    /\ out.kind = "returned"
    /\ out.mesh # 0
    /\ chain < MaxChain
    /\ heap' = [meshes |-> <<[heap.meshes[out.mesh] EXCEPT !.metadata = InputMesh]>>,
                dicts |-> <<heap.dicts[heap.meshes[out.mesh].metadata]>>]
    /\ pre' = heap'
    /\ call' = NoCall
    /\ out' = NotCalled
    /\ chain' = chain + 1
    /\ UNCHANGED <<first, cli, disk, par, gui>>

\* the caller drops the outcome of the last call and keeps its input mesh
Release ==
    /\ out # NotCalled
    /\ heap' = Base
    /\ pre' = Base
    /\ call' = NoCall
    /\ out' = NotCalled
    /\ UNCHANGED <<first, chain, cli, disk, par, gui>>

SurfaceCall == Surface(Params \cup {SurfaceExample})

RadialCall == Radial(Params)

MulticenterCall == Multicenter(Params)

RunPipelineCall == RunPipeline(ModeStrings, [m \in ModeStrings |-> ParamsFor(m)])

Next ==
    Validate \/ SurfaceCall \/ RadialCall \/ MulticenterCall \/ RunPipelineCall \/ Release

Spec == Init /\ [][Next]_vars

SurfaceStep == Surface(ChainParams)

RadialStep == Radial(ChainParams)

MulticenterStep == Multicenter(ChainParams)

RunPipelineStep == RunPipeline(ChainModes, [m \in ChainModes |-> ChainParams])

NextChain ==
    SurfaceStep \/ RadialStep \/ MulticenterStep \/ RunPipelineStep \/ Feed \/ Release

SpecChain == Init /\ [][NextChain]_vars

----------------------------------------------------------------------------
(* The run command, one statement of run per step, and load_stl called on  *)
(* its own.                                                                *)

ModelsMesh == Path("models", <<"mesh">>, STL)

InputPaths ==
    {ModelsMesh,
     Path("models", <<"MESH">>, <<".", "S", "T", "L">>),
     Path("models", <<"mesh">>, <<".", "o", "b", "j">>)}

\* what the input path may hold
Entries ==
    {<<ModelsMesh, Directory>>,
     <<ModelsMesh, File(Content("stl", Triangle))>>,
     <<ModelsMesh, File(Content("stl", Kite))>>,
     <<ModelsMesh, File(Content("stl", NoGeometry))>>,
     <<ModelsMesh, File(Content("garbage", NoGeometry))>>,
     <<ModelsMesh, File(Content("scene", Triangle))>>,
     <<Path("models", <<"MESH">>, <<".", "S", "T", "L">>), File(Content("stl", Kite))>>,
     <<Path("models", <<"mesh">>, <<".", "o", "b", "j">>), File(Content("stl", Triangle))>>,
     <<Path("models", <<"mesh">>, <<".", "o", "b", "j">>), Directory>>}

Disks ==
    {EmptyDisk} \cup {[EmptyDisk EXCEPT !.entries = [p \in {e[1]} |-> e[2]]] : e \in Entries}

\* the option values tried: each number on both sides of its bound, the
\* relief depth given and left out, the output path given and left out
CliOptions ==
    {Options(mode, t, d, r, seeds_json, input, output) :
        mode \in Mode, t \in {Zero, <<2, 1>>}, d \in {<<2, 5>>, <<3, 2>>},
        r \in {None(Zero), Some(Zero), Some(<<10, 1>>)},
        seeds_json \in SeedsOptions, input \in InputPaths,
        output \in {None(NoPath), Some(Path("out", <<"result">>, STL))}}

InitCli ==
    /\ heap = [meshes |-> <<>>, dicts |-> <<>>]
    /\ pre = heap
    /\ call = NoCall
    /\ out = NotCalled
    /\ first = Triangle
    /\ chain = 0
    /\ cli = NoRun
    /\ disk \in Disks
    /\ par = NoPar
    /\ gui = NoCalls

\* the command starts: typer has converted the options, and a path given
\* with exists=True that does not exist has ended the command already
CliStart ==
    /\ cli.pc = "idle"
    /\ \E opt \in CliOptions :
          cli' = IF exists(disk, opt.input)
                 THEN [cli EXCEPT !.opt = opt,
                                  !.output_path = IF opt.output.none
                                                  THEN default_output_path(opt.input)
                                                  ELSE opt.output.value,
                                  !.pc = RunOrder[1]]
                 ELSE exit_bad_parameter([cli EXCEPT !.opt = opt], "arguments",
                                         Exception("BadParameter", <<"does not exist">>,
                                                   PathText(opt.input)))
    /\ UNCHANGED <<heap, call, out, pre, first, chain, disk, par, gui>>

Begin(step) == [cli EXCEPT !.steps = Append(@, step)]

Continue(c, step) == [c EXCEPT !.pc = Successor(step)]

\* seeds = _parse_seeds(seeds_json), and the default of relief_depth
CliParseSeeds ==
    /\ cli.pc = "parse_seeds"
    /\ LET r == parse_seeds(cli.opt.seeds_json)
           c == [Begin("parse_seeds") EXCEPT !.parsed = r]
       IN  cli' = IF r.kind = "returned"
                  THEN Continue([c EXCEPT
                                    !.seeds = r.arg,
                                    !.relief_depth_value =
                                        IF cli.opt.relief_depth.none
                                        THEN default_relief_depth(cli.opt.mode)
                                        ELSE cli.opt.relief_depth.value],
                                "parse_seeds")
                  ELSE exit_bad_parameter(c, "parse_seeds", r)
    /\ UNCHANGED <<heap, call, out, pre, first, chain, disk, par, gui>>

\* _validate_parameters(mode, shell_thickness, density, relief_depth_value, seeds)
CliValidate ==
    /\ cli.pc = "validate"
    /\ LET r == validate_parameters(cli.opt.mode, cli.opt.shell_thickness,
                                    cli.opt.density, cli.relief_depth_value, cli.seeds)
           c == [Begin("validate") EXCEPT !.checked = r]
       IN  cli' = IF r.kind = "returned"
                  THEN Continue(c, "validate")
                  ELSE exit_bad_parameter(c, "validate", r)
    /\ UNCHANGED <<heap, call, out, pre, first, chain, disk, par, gui>>

\* output_path.parent.mkdir(parents=True, exist_ok=True)
CliMkdir ==
    /\ cli.pc = "mkdir"
    /\ disk' = [disk EXCEPT !.dirs = @ \cup {cli.output_path.parent}]
    /\ cli' = Continue(Begin("mkdir"), "mkdir")
    /\ UNCHANGED <<heap, call, out, pre, first, chain, par, gui>>

\* mesh = load_stl(input); its two exceptions become BadParameter for input
CliLoad ==
    /\ cli.pc = "load"
    /\ LET r == load_stl(heap, disk, cli.opt.input)
           c == [Begin("load") EXCEPT !.loaded = r.out, !.load_calls = @ + 1]
       IN  /\ heap' = r.h
           /\ cli' = IF r.out.kind = "returned"
                     THEN Continue(c, "load")
                     ELSE exit_bad_parameter(c, "load",
                                             [r.out EXCEPT !.param_hint = "input"])
    /\ UNCHANGED <<call, out, pre, first, chain, disk, par, gui>>

\* the try statement around run_pipeline: r is what the call did
TryDispatch(r) ==
    /\ heap' = r.h
    /\ out' = r.out
    /\ cli' = IF out'.kind = "returned"
              THEN Continue([Begin("dispatch") EXCEPT !.pipeline_calls = @ + 1], "dispatch")
              ELSE exit_pipeline_error([Begin("dispatch") EXCEPT !.pipeline_calls = @ + 1],
                                       "dispatch", out')

\* processed_mesh = run_pipeline(mode=mode.value, mesh=mesh, ...)
CliDispatch ==
    /\ cli.pc = "dispatch"
    /\ call' = Call("run_pipeline", cli.opt.mode,
                    Param(cli.opt.shell_thickness, cli.opt.density, cli.relief_depth_value),
                    cli.seeds)
    /\ pre' = heap
    /\ \E copies \in BOOLEAN :
          TryDispatch(dispatch(heap, copies, cli.opt.mode, cli.loaded.mesh,
                               cli.opt.shell_thickness, cli.opt.density,
                               cli.relief_depth_value, cli.seeds))
    /\ UNCHANGED <<first, chain, disk, par, gui>>

\* processed_mesh.export(output_path) and the message of success; written
\* says whether the file system took the file
CliExport ==
    /\ cli.pc = "export"
    /\ \E written \in BOOLEAN :
          LET c == [Begin("export") EXCEPT !.export_calls = @ + 1]
              file == File(Content("stl", export_stl(heap.meshes[out.mesh])))
          IN  IF written
              THEN /\ disk' = [disk EXCEPT !.entries = (cli.output_path :> file) @@ @]
                   /\ cli' = [c EXCEPT !.pc = Successor("export"),
                                       !.stdout = Append(@, Line("Voronoi mesh saved to ",
                                                                 Exception("", <<>>,
                                                                           PathText(cli.output_path)))),
                                       !.exit_code = 0]
              ELSE /\ disk' = disk
                   /\ cli' = exit_export_failure(c, "export",
                                                 Exception("Exception", <<"': ">>,
                                                           PathText(cli.output_path)))
    /\ UNCHANGED <<heap, call, out, pre, first, chain, par, gui>>

\* load_stl called on its own, as the tests and the interface do
LoadStlCall ==
    /\ cli.pc = "idle"
    /\ \E file_path \in InputPaths :
          LET r == load_stl(heap, disk, file_path)
          IN  /\ heap' = r.h
              /\ cli' = [cli EXCEPT !.pc = "returned", !.opt.input = file_path,
                                    !.loaded = r.out, !.load_calls = @ + 1]
    /\ UNCHANGED <<call, out, pre, first, chain, disk, par, gui>>

NextCli ==
    \/ CliStart
    \/ CliParseSeeds
    \/ CliValidate
    \/ CliMkdir
    \/ CliLoad
    \/ CliDispatch
    \/ CliExport
    \/ LoadStlCall

SpecCli == InitCli /\ [][NextCli]_vars

----------------------------------------------------------------------------
(* Several invocations at the same time on one heap and one input mesh,    *)
(* each advancing by one statement of its operator per step.               *)

\* a call with its position, the object it works on and its outcome
Frame(c, pc) == [call |-> c, pc |-> pc, result |-> 0, out |-> NotCalled]

\* the calls made at the same time: every operator through the dispatcher,
\* the two calls the dispatcher fails, and a legal and an illegal validation
ParCalls ==
    {Call("run_pipeline", <<"S", "U", "R", "F", "A", "C", "E">>,
          Param(<<100, 1>>, Zero, <<20, 1>>), <<>>),
     Call("run_pipeline", RADIAL, Param(<<100, 1>>, Zero, <<20, 1>>), <<Pt(3, 0, 3)>>),
     Call("run_pipeline", RADIAL, Param(<<-1, 1>>, <<-1, 2>>, <<-20, 1>>), <<>>),
     Call("run_pipeline", MULTICENTER, Param(<<100, 1>>, Zero, <<20, 1>>), <<Pt(3, 0, 3)>>),
     Call("run_pipeline", MULTICENTER, Param(<<100, 1>>, Zero, <<20, 1>>), <<>>),
     Call("run_pipeline", <<"V", "O", "R", "O", "N", "O", "I">>,
          Param(<<100, 1>>, Zero, <<20, 1>>), <<>>),
     Call("validate_parameters", RADIAL, Param(<<100, 1>>, Zero, <<20, 1>>), <<>>),
     Call("validate_parameters", RADIAL, Param(<<-1, 1>>, <<-1, 2>>, <<-20, 1>>), <<>>)}

InitPar ==
    /\ \E m \in LoadedMeshes :
          /\ heap = [meshes |-> <<m>>, dicts |-> <<LoadedMetadata>>]
          /\ first = m
    /\ pre = heap
    /\ call = NoCall
    /\ out = NotCalled
    /\ chain = 0
    /\ cli = NoRun
    /\ disk = EmptyDisk
    /\ par = [i \in 1..MaxInvocations |-> Frame(NoCall, "idle")]
    /\ gui = NoCalls

\* a caller makes a call
Invoke ==
    /\ \E i \in DOMAIN par, c \in ParCalls :
          /\ par[i].pc = "idle"
          /\ par' = [par EXCEPT ![i] = Frame(c, "entered")]
    /\ UNCHANGED <<heap, call, out, pre, first, chain, cli, disk, gui>>

\* the operator a mode string is routed to
Routed(f) == StrLower(f.call.mode)

\* _validate_parameters as a whole, or run_pipeline up to the operator's
\* first statement: the mode is normalised and routed, and multicenter
\* checks its seeds
Enter ==
    /\ \E i \in DOMAIN par :
          /\ par[i].pc = "entered"
          /\ LET f == par[i]
                 c == par[i].call
             IN  par' = [par EXCEPT ![i] =
                     IF c.op = "validate_parameters"
                     THEN [f EXCEPT !.pc = "done",
                                    !.out = validate_parameters(c.mode, c.shell_thickness,
                                                                c.density, c.relief_depth,
                                                                c.seeds)]
                     ELSE IF Routed(f) \notin Mode
                     THEN [f EXCEPT !.pc = "done",
                                    !.out = PipelineError(
                                        <<"Unsupported Voronoi mode: ", ".">>, c.mode)]
                     ELSE IF Routed(f) = MULTICENTER /\ c.seeds = <<>>
                     THEN [f EXCEPT !.pc = "done",
                                    !.out = PipelineError(
                                        <<"multicenter mode requires at least one seed point.">>,
                                        NoArg)]
                     ELSE [f EXCEPT !.pc = "copy"]]
    /\ UNCHANGED <<heap, call, out, pre, first, chain, cli, disk, gui>>

\* result = _copy_mesh(mesh)
CopyStep ==
    /\ \E i \in DOMAIN par :
          /\ par[i].pc = "copy"
          /\ heap' = copy_mesh(heap, InputMesh).h
          /\ par' = [par EXCEPT ![i].pc = "first",
                                ![i].result = copy_mesh(heap, InputMesh).id]
    /\ UNCHANGED <<call, out, pre, first, chain, cli, disk, gui>>

\* the first statement after the copy: surface scales, radial rotates about
\* the centroid of its copy, multicenter translates towards the seeds
FirstStatement ==
    /\ \E i \in DOMAIN par :
          /\ par[i].pc = "first"
          /\ LET c == par[i].call
                 result == par[i].result
             IN  heap' =
                     IF Routed(par[i]) = SURFACE
                     THEN apply_scale(heap, result,
                              RAdd(RAdd(One, RMul(RMax(c.density, Zero), <<1, 20>>)),
                                   RMul(RMax(c.shell_thickness, Zero), <<1, 100>>)))
                     ELSE IF Routed(par[i]) = RADIAL
                     THEN apply_transform(heap, result,
                              rotation_matrix(Angle(RMax(c.density, Zero),
                                                    RMul(c.relief_depth, <<1, 20>>)),
                                              Centroid(heap.meshes[result])))
                     ELSE add_offset(heap, result,
                              VScale(VSub(VScale(VSum(c.seeds), <<1, Len(c.seeds)>>),
                                          Centroid(heap.meshes[result])),
                                     RAdd(RMax(c.density, Zero),
                                          RMul(c.relief_depth, <<1, 10>>))))
          /\ par' = [par EXCEPT ![i].pc = "second"]
    /\ UNCHANGED <<call, out, pre, first, chain, cli, disk, gui>>

\* the second statement: surface offsets along z when relief_depth > 0,
\* radial and multicenter scale
SecondStatement ==
    /\ \E i \in DOMAIN par :
          /\ par[i].pc = "second"
          /\ LET c == par[i].call
                 result == par[i].result
             IN  heap' =
                     IF Routed(par[i]) = SURFACE
                     THEN IF RGt(c.relief_depth, Zero)
                          THEN add_offset(heap, result,
                                          <<Zero, Zero, RMul(c.relief_depth, <<1, 10>>)>>)
                          ELSE heap
                     ELSE IF Routed(par[i]) = RADIAL
                     THEN apply_scale(heap, result,
                              RAdd(One, RMul(RMax(c.shell_thickness, Zero), <<1, 100>>)))
                     ELSE apply_scale(heap, result,
                              RAdd(One, RMul(RMul(RMax(c.shell_thickness, Zero), <<1, 200>>),
                                             RInt(Len(c.seeds)))))
          /\ par' = [par EXCEPT ![i].pc = "metadata"]
    /\ UNCHANGED <<call, out, pre, first, chain, cli, disk, gui>>

\* result.metadata = {**getattr(mesh, "metadata", {}), ...}; return result
MetadataStep ==
    /\ \E i \in DOMAIN par :
          /\ par[i].pc = "metadata"
          /\ LET c == par[i].call
                 written == [voronoi_mode |-> Routed(par[i]),
                             voronoi_shell_thickness |-> c.shell_thickness,
                             voronoi_density |-> c.density,
                             voronoi_relief_depth |-> c.relief_depth]
             IN  heap' = set_metadata(heap, par[i].result,
                             Merge(Metadata(heap, InputMesh),
                                   IF Routed(par[i]) = MULTICENTER
                                   THEN written @@ [voronoi_seed_count |-> Len(c.seeds)]
                                   ELSE written))
          /\ par' = [par EXCEPT ![i].pc = "done", ![i].out = Returned(par[i].result)]
    /\ UNCHANGED <<call, out, pre, first, chain, cli, disk, gui>>

NextPar == Invoke \/ Enter \/ CopyStep \/ FirstStatement \/ SecondStatement \/ MetadataStep

SpecPar == InitPar /\ [][NextPar]_vars

----------------------------------------------------------------------------
(* Properties of the validator *)

Validated == call.op = "validate_parameters"

\* the legality conditions of the parameter rules, stated on the last call
Legal ==
    /\ RGt(call.shell_thickness, Zero)
    /\ RGeq(call.density, Zero) /\ RLeq(call.density, One)
    /\ RGeq(call.relief_depth, Zero)
    /\ (call.seeds # <<>>) <=> (call.mode = MULTICENTER)
    /\ (call.mode = SURFACE) => RGt(call.relief_depth, Zero)

\* C1: _validate_parameters returns without error exactly when
\* shell_thickness > 0, 0 <= density <= 1, relief_depth >= 0, seeds is
\* non-empty iff the mode is multicenter, and relief_depth > 0 in surface
\* mode; for every other input it raises a parameter error.
C1_ValidateAcceptsExactlyLegal ==
    Validated =>
        /\ Legal => out = Returned(0)
        /\ ~Legal => out.kind = "BadParameter"

\* density 0 and density 1 accepted, relief_depth 0 accepted in radial mode
C1_Witness ==
    /\ Validated
    /\ call.mode = RADIAL
    /\ call.density = One
    /\ call.relief_depth = Zero
    /\ out = Returned(0)

\* the rules in their order of precedence: <<violated, field>>
Rules ==
    <<
      <<RLeq(call.shell_thickness, Zero), "shell_thickness">>,
      <<RLt(call.density, Zero) \/ RGt(call.density, One), "density">>,
      <<RLt(call.relief_depth, Zero), "relief_depth">>,
      <<call.mode # MULTICENTER /\ call.seeds # <<>>, "seeds">>,
      <<call.mode = MULTICENTER /\ call.seeds = <<>>, "seeds">>,
      <<call.mode = SURFACE /\ call.relief_depth = Zero, "relief_depth">>
    >>

Violated == {i \in DOMAIN Rules : Rules[i][1]}

FirstViolated == CHOOSE i \in Violated : \A j \in Violated : i <= j

\* the rule an error message belongs to
RuleOfMessage(msg) ==
    IF msg = <<"shell_thickness", " must be greater than zero.">> THEN 1
    ELSE IF msg = <<"density", " must be zero or greater.">> THEN 2
    ELSE IF msg = <<"density must be between 0 and 1 (inclusive).">> THEN 2
    ELSE IF msg = <<"relief_depth", " must be zero or greater.">> THEN 3
    ELSE IF msg = <<"seeds can only be provided when using multicenter mode.">> THEN 4
    ELSE IF msg = <<"seeds must provide at least one centroid when using multicenter mode.">>
    THEN 5
    ELSE IF msg = <<"relief_depth must be greater than zero when using surface mode.">>
    THEN 6
    ELSE 0

\* C2: when several rules are violated the error is that of the first rule
\* in the order shell_thickness, density, relief_depth, seeds outside
\* multicenter, no seeds in multicenter, relief_depth = 0 in surface mode,
\* and it names that rule's field.
C2_FirstViolatedRuleReported ==
    (Validated /\ Violated # {}) =>
        /\ out.kind = "BadParameter"
        /\ RuleOfMessage(out.message) = FirstViolated
        /\ out.param_hint = Rules[FirstViolated][2]

\* shell_thickness = 0 together with density = 1.5 reports shell_thickness
C2_Witness ==
    /\ Validated
    /\ call.shell_thickness = Zero
    /\ call.density = <<3, 2>>
    /\ Cardinality(Violated) >= 2
    /\ out.param_hint = "shell_thickness"

----------------------------------------------------------------------------
(* Properties of the dispatcher *)

Dispatched == call.op = "run_pipeline"

UpperOf(c) ==
    IF \E i \in DOMAIN Lower : Lower[i] = c
    THEN Upper[CHOOSE i \in DOMAIN Lower : Lower[i] = c]
    ELSE c

\* s spells the lower-case word w in some mix of letter cases
Spells(s, w) ==
    /\ Len(s) = Len(w)
    /\ \A i \in DOMAIN w : s[i] = w[i] \/ s[i] = UpperOf(w[i])

After == [h |-> heap, out |-> out]

\* C3: run_pipeline returns what the operator named by the lower-cased mode
\* returns for the same mesh and parameters, for every spelling of the three
\* mode names, and raises PipelineError naming the mode as passed for every
\* other string.
C3_DispatchByLowerCasedMode ==
    Dispatched =>
        /\ Spells(call.mode, SURFACE) =>
               After = apply_surface_voronoi(pre, InputMesh, call.shell_thickness,
                                             call.density, call.relief_depth)
        /\ Spells(call.mode, RADIAL) =>
               After = apply_radial_voronoi(pre, InputMesh, call.shell_thickness,
                                            call.density, call.relief_depth)
        /\ Spells(call.mode, MULTICENTER) =>
               After = apply_multicenter_voronoi(pre, InputMesh, call.shell_thickness,
                                                 call.density, call.relief_depth,
                                                 call.seeds)
        /\ (\A w \in Mode : ~Spells(call.mode, w)) =>
               /\ out.kind = "PipelineError"
               /\ out.arg = call.mode
               /\ out.message = <<"Unsupported Voronoi mode: ", ".">>
               /\ heap = pre

\* a mode given in capitals is dispatched to its operator
C3_Witness ==
    /\ Dispatched
    /\ call.mode = <<"M", "u", "l", "t", "i", "C", "e", "n", "t", "e", "r">>
    /\ call.seeds # <<>>
    /\ out.kind = "returned"
    /\ heap.dicts[heap.meshes[out.mesh].metadata].voronoi_mode = MULTICENTER

MulticenterCalled ==
    \/ call.op = "apply_multicenter_voronoi"
    \/ Dispatched /\ Spells(call.mode, MULTICENTER)

\* C4: multicenter mode with zero seeds fails with PipelineError for every
\* shell_thickness, density and relief_depth, called directly or through
\* run_pipeline; nothing is copied or changed and no mesh is returned.
C4_NoSeedsAlwaysFails ==
    (MulticenterCalled /\ call.seeds = <<>>) =>
        /\ out.kind = "PipelineError"
        /\ out.message = <<"multicenter mode requires at least one seed point.">>
        /\ out.mesh = 0
        /\ heap = pre

C4_Witness ==
    /\ call.op = "apply_multicenter_voronoi"
    /\ call.seeds = <<>>
    /\ RGt(call.shell_thickness, Zero)
    /\ out.kind = "PipelineError"

----------------------------------------------------------------------------
(* Properties of the transform operators *)

SurfaceCalled ==
    \/ call.op = "apply_surface_voronoi"
    \/ Dispatched /\ Spells(call.mode, SURFACE)

RadialCalled ==
    \/ call.op = "apply_radial_voronoi"
    \/ Dispatched /\ Spells(call.mode, RADIAL)

Transformed == SurfaceCalled \/ RadialCalled \/ MulticenterCalled

\* the caller's mesh when the call started, and the mesh the call returned
Given == pre.meshes[InputMesh]

Result == heap.meshes[out.mesh]

ResultMetadata == heap.dicts[Result.metadata]

\* C5: after any sequence of successful transforms the output has as many
\* vertices and faces as the mesh loaded at the start, the same index
\* triples in the same order, and every index within the vertex range.
C5_TopologyPreserved ==
    (Transformed /\ out.kind = "returned") =>
        /\ Len(Result.vertices) = Len(first.vertices)
        /\ Len(Result.faces) = Len(first.faces)
        /\ Result.faces = first.faces
        /\ \A k \in DOMAIN Result.faces : \A j \in 1..3 :
               Result.faces[k][j] \in 0..(Len(Result.vertices) - 1)

\* a transform of a two-face mesh that is itself the result of a transform
C5_Witness ==
    /\ chain >= 1
    /\ Transformed /\ out.kind = "returned"
    /\ Len(first.faces) = 2
    /\ Result.vertices # first.vertices

\* C6: after an operator or run_pipeline returns or fails, the input mesh's
\* vertices, faces and metadata mapping are what they were before the call,
\* and a returned mesh is a new object with a new metadata mapping.
C6_InputNeverMutated ==
    Transformed =>
        /\ heap.meshes[InputMesh] = Given
        /\ heap.dicts[Given.metadata] = pre.dicts[Given.metadata]
        /\ out.kind = "returned" =>
               /\ out.mesh \notin DOMAIN pre.meshes
               /\ Result.metadata \notin DOMAIN pre.dicts
               /\ \A o \in DOMAIN heap.meshes :
                      o # out.mesh => heap.meshes[o].metadata # Result.metadata

\* a call that moved every vertex and wrote metadata, input left as it was
C6_Witness ==
    /\ Transformed /\ out.kind = "returned"
    /\ \A i \in DOMAIN Given.vertices : Result.vertices[i] # Given.vertices[i]
    /\ ResultMetadata # pre.dicts[Given.metadata]
    /\ heap.meshes[InputMesh] = Given

\* max(x, 0) as the formulas use it
Clamp(x) == IF x[1] < 0 THEN Zero ELSE x

SurfaceScale == RAdd(One, RAdd(RMul(<<1, 20>>, Clamp(call.density)),
                               RMul(<<1, 100>>, Clamp(call.shell_thickness))))

SurfaceOffset ==
    IF call.relief_depth[1] > 0
    THEN <<Zero, Zero, RMul(<<1, 10>>, call.relief_depth)>>
    ELSE VZero

\* C7: surface mode maps every vertex v to s*v + t with
\* s = 1 + 0.05*max(density,0) + 0.01*max(shell_thickness,0) and
\* t = (0, 0, 0.1*relief_depth) when relief_depth > 0, else 0: the offset is
\* added after the scale and is not scaled.  density=0.3,
\* shell_thickness=1.5, relief_depth=0.2 gives s = 1.03, t = (0, 0, 0.02).
C7_SurfaceScaleThenOffset ==
    SurfaceCalled =>
        /\ out.kind = "returned"
        /\ DOMAIN Result.vertices = DOMAIN Given.vertices
        /\ \A i \in DOMAIN Given.vertices :
               Result.vertices[i] = VAdd(VScale(Given.vertices[i], SurfaceScale),
                                         SurfaceOffset)
        /\ (call.density = <<3, 10>> /\ call.shell_thickness = <<3, 2>>
               /\ call.relief_depth = <<1, 5>>) =>
               /\ SurfaceScale = <<103, 100>>
               /\ SurfaceOffset = <<Zero, Zero, <<1, 50>>>>

\* the example on the mesh in the plane z = 1: vertex (2, 0, 1) goes to
\* (2.06, 0, 1.05)
C7_Witness ==
    /\ call.op = "apply_surface_voronoi"
    /\ call.density = <<3, 10>>
    /\ call.shell_thickness = <<3, 2>>
    /\ call.relief_depth = <<1, 5>>
    /\ Given.vertices[2] = Pt(2, 0, 1)
    /\ out.kind = "returned"
    /\ Result.vertices[2] = <<<<103, 50>>, Zero, <<21, 20>>>>

RadialAngle == Angle(Clamp(call.density), RMul(<<1, 20>>, call.relief_depth))

RadialScale == RAdd(One, RMul(<<1, 100>>, Clamp(call.shell_thickness)))

\* the input mesh rotated by RadialAngle about the vertical axis through
\* its centroid
Rotated ==
    LET T == rotation_matrix(RadialAngle, Centroid(Given))
    IN  [Given EXCEPT !.vertices = [i \in DOMAIN @ |-> Rotate(T, @[i])]]

\* C8: radial mode rotates every vertex by
\* max(density,0)*(pi/4) + 0.05*relief_depth about the axis (0,0,1) through
\* the input centroid and then scales about the origin by
\* 1 + 0.01*max(shell_thickness,0); the rotation leaves the centroid and
\* every z coordinate unchanged, and the output centroid is the input
\* centroid times the scale factor.
C8_RadialRotateThenScale ==
    RadialCalled =>
        /\ out.kind = "returned"
        /\ Result.vertices =
               [i \in DOMAIN Given.vertices |-> VScale(Rotated.vertices[i], RadialScale)]
        /\ Centroid(Rotated) = Centroid(Given)
        /\ \A i \in DOMAIN Given.vertices : Rotated.vertices[i][3] = Given.vertices[i][3]
        /\ Centroid(Result) = VScale(Centroid(Given), RadialScale)

\* density=0.4, shell_thickness=2.0, relief_depth=0 on the mesh whose
\* centroid (1/3, 2/3, 1) is not on the axis through the origin
C8_Witness ==
    /\ call.op = "apply_radial_voronoi"
    /\ call.density = <<2, 5>>
    /\ call.shell_thickness = <<2, 1>>
    /\ call.relief_depth = Zero
    /\ Centroid(Given) = <<<<1, 3>>, <<2, 3>>, One>>
    /\ out.kind = "returned"
    /\ RadialScale = <<51, 50>>
    /\ Result.vertices[1] # VScale(Given.vertices[1], RadialScale)
    /\ Centroid(Result) = <<<<17, 50>>, <<17, 25>>, <<51, 50>>>>

MulticenterOffset ==
    VScale(VSub(VScale(VSum(call.seeds), <<1, Len(call.seeds)>>), Centroid(Given)),
           RAdd(Clamp(call.density), RMul(<<1, 10>>, call.relief_depth)))

MulticenterScale ==
    RAdd(One, RMul(<<Len(call.seeds), 200>>, Clamp(call.shell_thickness)))

\* C9: multicenter mode with n >= 1 seeds maps every vertex v to
\* (v + offset)*s, offset = (mean of the seeds - input centroid) *
\* (max(density,0) + 0.1*relief_depth), s = 1 + 0.005*max(shell_thickness,0)*n,
\* where n counts every seed supplied, duplicates included.
C9_MulticenterTranslateThenScale ==
    (MulticenterCalled /\ call.seeds # <<>>) =>
        /\ out.kind = "returned"
        /\ Result.vertices =
               [i \in DOMAIN Given.vertices |->
                    VScale(VAdd(Given.vertices[i], MulticenterOffset), MulticenterScale)]

\* the same seed given twice: s = 1 + 0.005*2*2 = 1.02, and a non-zero
\* offset, so that the order of the two steps shows
C9_Witness ==
    /\ call.op = "apply_multicenter_voronoi"
    /\ Len(call.seeds) = 2 /\ call.seeds[1] = call.seeds[2]
    /\ call.shell_thickness = <<2, 1>>
    /\ MulticenterScale = <<51, 50>>
    /\ MulticenterOffset # VZero
    /\ out.kind = "returned"

NumbersRecorded ==
    /\ ResultMetadata.voronoi_shell_thickness = call.shell_thickness
    /\ ResultMetadata.voronoi_density = call.density
    /\ ResultMetadata.voronoi_relief_depth = call.relief_depth
    /\ ResultMetadata.voronoi_mode = MULTICENTER =>
           ResultMetadata.voronoi_seed_count = Len(call.seeds)

\* C10 as stated: the recorded voronoi_mode equals the mode passed.
C10_ModeRecordedAsPassed ==
    (Dispatched /\ out.kind = "returned") =>
        /\ ResultMetadata.voronoi_mode = call.mode
        /\ NumbersRecorded

\* C10: after a successful run_pipeline the returned mesh's metadata holds
\* the mode passed in lower case (the operator's tag), the three numeric
\* parameters as passed, not clamped, and in multicenter mode the number of
\* seeds.
C10_MetadataRoundTrip ==
    (Dispatched /\ out.kind = "returned") =>
        /\ ResultMetadata.voronoi_mode \in Mode
        /\ Spells(call.mode, ResultMetadata.voronoi_mode)
        /\ NumbersRecorded

\* negative density and shell_thickness, which the formulas clamp, read back
\* as passed
C10_Witness ==
    /\ Dispatched /\ out.kind = "returned"
    /\ call.mode = <<"R", "a", "d", "i", "a", "l">>
    /\ call.density = <<-1, 2>>
    /\ call.shell_thickness = <<-1, 1>>
    /\ ResultMetadata.voronoi_density = <<-1, 2>>
    /\ ResultMetadata.voronoi_mode = RADIAL

----------------------------------------------------------------------------
(* Metadata merge, dispatcher without validation, validator messages *)

\* the keys an operator writes
WrittenKeys ==
    {"voronoi_mode", "voronoi_shell_thickness", "voronoi_density", "voronoi_relief_depth"}
    \cup (IF MulticenterCalled THEN {"voronoi_seed_count"} ELSE {})

GivenMetadata == pre.dicts[Given.metadata]

OperatorTag ==
    IF SurfaceCalled THEN SURFACE ELSE IF RadialCalled THEN RADIAL ELSE MULTICENTER

\* C11: the output metadata is the input metadata with the voronoi_* keys
\* the operator writes set to this run's values and every other input key
\* carried over unchanged; after a chain the mode and the three numbers are
\* those of the last transform, and a key only an earlier transform wrote
\* (voronoi_seed_count) keeps its old value.
C11_MetadataMerged ==
    (Transformed /\ out.kind = "returned") =>
        /\ DOMAIN ResultMetadata = DOMAIN GivenMetadata \cup WrittenKeys
        /\ \A k \in DOMAIN GivenMetadata \ WrittenKeys :
               ResultMetadata[k] = GivenMetadata[k]
        /\ ResultMetadata.voronoi_mode = OperatorTag
        /\ ResultMetadata.voronoi_shell_thickness = call.shell_thickness
        /\ ResultMetadata.voronoi_density = call.density
        /\ ResultMetadata.voronoi_relief_depth = call.relief_depth
        /\ MulticenterCalled => ResultMetadata.voronoi_seed_count = Len(call.seeds)

\* multicenter with two seeds followed by a surface or radial transform with
\* other parameters: the seed count of the first transform is still there
C11_Witness ==
    /\ chain >= 1
    /\ (SurfaceCalled \/ RadialCalled) /\ out.kind = "returned"
    /\ "voronoi_seed_count" \in DOMAIN GivenMetadata
    /\ GivenMetadata.voronoi_mode = MULTICENTER
    /\ GivenMetadata.voronoi_density # call.density
    /\ ResultMetadata.voronoi_seed_count = 2
    /\ ResultMetadata.file_name = LoadedMetadata.file_name

Recognised == \E w \in Mode : Spells(call.mode, w)

\* what the validator says about the arguments of the last call
ValidatorVerdict ==
    validate_parameters(StrLower(call.mode), call.shell_thickness, call.density,
                        call.relief_depth, call.seeds)

MentionsBothBounds(msg) == msg = <<"density must be between 0 and 1 (inclusive).">>

DensityOutOfRange == RLt(call.density, Zero) \/ RGt(call.density, One)

\* C13 as stated: every density outside [0, 1] is rejected with a message
\* that names both 0 and 1.
C13_RangeMessageForEveryDensity ==
    (Validated /\ RGt(call.shell_thickness, Zero) /\ DensityOutOfRange) =>
        /\ out.kind = "BadParameter"
        /\ out.param_hint = "density"
        /\ MentionsBothBounds(out.message)

\* C13: with shell_thickness > 0 every density outside [0, 1] is rejected
\* with field density whatever the mode, the seeds and relief_depth; above 1
\* the message names both bounds, below 0 it is "density must be zero or
\* greater." and names the lower bound only.
C13_DensityRejected ==
    (Validated /\ RGt(call.shell_thickness, Zero) /\ DensityOutOfRange) =>
        /\ out.kind = "BadParameter"
        /\ out.param_hint = "density"
        /\ RGt(call.density, One) => MentionsBothBounds(out.message)
        /\ RLt(call.density, Zero) =>
               out.message = <<"density", " must be zero or greater.">>

\* a negative density in multicenter mode without seeds and with a negative
\* relief_depth: the density is what is reported
C13_Witness ==
    /\ Validated
    /\ call.mode = MULTICENTER
    /\ call.seeds = <<>>
    /\ call.density = <<-1, 2>>
    /\ call.relief_depth = <<-10, 1>>
    /\ RGt(call.shell_thickness, Zero)
    /\ out.param_hint = "density"

NumbersInRange ==
    /\ RGt(call.shell_thickness, Zero)
    /\ RGeq(call.density, Zero) /\ RLeq(call.density, One)
    /\ RGeq(call.relief_depth, Zero)

\* the message names multicenter mode
MentionsMulticenter(msg) ==
    \/ msg = <<"seeds can only be provided when using multicenter mode.">>
    \/ msg = <<"seeds must provide at least one centroid when using multicenter mode.">>

\* C14: with the three numbers in range, seeds given in surface or radial
\* mode are rejected with field seeds and a message naming multicenter mode,
\* no seeds in multicenter mode is rejected with field seeds, and one seed
\* is enough in multicenter mode.
C14_SeedsRules ==
    (Validated /\ NumbersInRange) =>
        /\ (call.mode # MULTICENTER /\ call.seeds # <<>>) =>
               /\ out.kind = "BadParameter"
               /\ out.param_hint = "seeds"
               /\ MentionsMulticenter(out.message)
        /\ (call.mode = MULTICENTER /\ call.seeds = <<>>) =>
               /\ out.kind = "BadParameter"
               /\ out.param_hint = "seeds"
        /\ (call.mode = MULTICENTER /\ Len(call.seeds) = 1) => out = Returned(0)

\* seeds in surface mode with relief_depth 0: the seeds are what is reported
C14_Witness ==
    /\ Validated /\ NumbersInRange
    /\ call.mode = SURFACE
    /\ call.relief_depth = Zero
    /\ Len(call.seeds) = 1
    /\ out.param_hint = "seeds"

----------------------------------------------------------------------------
(* The run command and the loader *)

\* the command has begun the statement
Started(step) == \E i \in DOMAIN cli.steps : cli.steps[i] = step

Exited == cli.pc = "exit"

ClaimedStep(step) == step \in {"parse_seeds", "validate", "load", "dispatch", "export"}

ClaimedOrder == <<"parse_seeds", "validate", "load", "dispatch", "export">>

IsPrefix(a, b) == Len(a) <= Len(b) /\ \A i \in DOMAIN a : a[i] = b[i]

\* C15: a run parses the seeds, validates, loads the mesh, dispatches and
\* exports in this order, each step beginning only after the one before
\* succeeded; when parsing or validation fails no mesh is loaded,
\* run_pipeline is not called, no directory or file is created and the exit
\* code is 2.
C15_ValidateBeforeGeometry ==
    /\ IsPrefix(SelectSeq(cli.steps, ClaimedStep), ClaimedOrder)
    /\ Started("validate") => cli.parsed.kind = "returned"
    /\ Started("load") => cli.checked = Returned(0)
    /\ Started("dispatch") => cli.loaded.kind = "returned"
    /\ Started("export") => out.kind = "returned"
    /\ (cli.parsed.kind = "BadParameter" \/ cli.checked.kind = "BadParameter") =>
           /\ Exited
           /\ cli.exit_code = 2
           /\ cli.load_calls = 0 /\ heap.meshes = <<>>
           /\ cli.pipeline_calls = 0 /\ call = NoCall
           /\ cli.export_calls = 0
           /\ disk.dirs = EmptyDisk.dirs
           /\ ~exists(disk, cli.output_path)

\* seeds that parse, a density the validator rejects, a loadable input and
\* an output path in a directory that does not exist yet
C15_Witness ==
    /\ Exited
    /\ cli.parsed.kind = "returned" /\ cli.seeds # <<>>
    /\ cli.checked.kind = "BadParameter" /\ cli.checked.param_hint = "density"
    /\ is_file(disk, cli.opt.input)
    /\ cli.opt.input = ModelsMesh
    /\ disk.entries[ModelsMesh].content = Content("stl", Kite)
    /\ cli.output_path.parent = "out"
    /\ cli.exit_code = 2

ExpectedRelief ==
    IF cli.opt.relief_depth.none
    THEN IF cli.opt.mode = SURFACE THEN One ELSE Zero
    ELSE cli.opt.relief_depth.value

\* C17: the command hands its option values unchanged to the validator and
\* to run_pipeline, with relief depth 1.0 in surface mode and 0.0 in radial
\* and multicenter mode when the option is left out and the given value
\* otherwise, and the file it writes holds the mesh run_pipeline returns for
\* the loaded input and these values.
C17_OptionsPassedUnchanged ==
    /\ Started("validate") =>
           cli.checked = validate_parameters(cli.opt.mode, cli.opt.shell_thickness,
                                             cli.opt.density, ExpectedRelief,
                                             cli.parsed.arg)
    /\ Started("dispatch") =>
           call = [op |-> "run_pipeline", mode |-> cli.opt.mode,
                   shell_thickness |-> cli.opt.shell_thickness,
                   density |-> cli.opt.density, relief_depth |-> ExpectedRelief,
                   seeds |-> cli.parsed.arg]
    /\ (Exited /\ cli.exit_code = 0) =>
           LET r == run_pipeline(pre, cli.opt.mode, InputMesh, cli.opt.shell_thickness,
                                 cli.opt.density, ExpectedRelief, cli.parsed.arg)
           IN  /\ disk.entries[cli.output_path].content.mesh
                      = export_stl(r.h.meshes[r.out.mesh])
               /\ disk.entries[cli.output_path].content.mesh
                      = export_stl(heap.meshes[out.mesh])

\* radial mode without --relief-depth: the file is written and the relief
\* depth passed on is 0
C17_Witness ==
    /\ Exited /\ cli.exit_code = 0
    /\ cli.opt.mode = RADIAL
    /\ cli.opt.relief_depth.none
    /\ call.relief_depth = Zero
    /\ is_file(disk, cli.output_path)

\* a JSON number
IsNumber(j) == j.t \in {"int", "float"}

\* a JSON array of exactly three numbers
IsTriple(j) == j.t = "list" /\ Len(j.items) = 3 /\ \A i \in DOMAIN j.items : IsNumber(j.items[i])

\* C18 as stated: _parse_seeds returns the empty list for a missing, empty
\* or blank option and for '[]', returns the triples as floats in order for
\* a JSON array of arrays of exactly three numbers, and raises a parameter
\* error for seeds, returning nothing, for every other input.
C18_ParseSeedsAllOrNothing ==
    cli.parsed.kind # "none" =>
        LET raw == cli.opt.seeds_json
            doc == raw.value.doc
        IN  IF raw.none \/ doc.t = "empty"
            THEN cli.parsed = ReturnedList(<<>>)
            ELSE IF doc.t = "list" /\ \A i \in DOMAIN doc.items : IsTriple(doc.items[i])
            THEN cli.parsed = ReturnedList([i \in DOMAIN doc.items |->
                                               [k \in 1..3 |-> doc.items[i].items[k].num]])
            ELSE /\ cli.parsed.kind = "BadParameter"
                 /\ cli.parsed.param_hint = "seeds"
                 /\ cli.parsed.arg = NoArg

LoadedFrom == cli.opt.input

\* C19: load_stl raises FileNotFoundError when the path does not exist or
\* is not a regular file, whatever its suffix; it raises ValueError for a
\* file whose suffix is not .stl (in any letter case), whose contents do not
\* parse, do not load as one mesh or hold no geometry; a mesh it returns is
\* the file's and is not empty; after a failed load there is no second one.
C19_LoadStlFailures ==
    cli.load_calls > 0 =>
        /\ ~is_file(disk, LoadedFrom) => cli.loaded.kind = "FileNotFoundError"
        /\ (is_file(disk, LoadedFrom) /\
            \/ ~Spells(LoadedFrom.suffix, STL)
            \/ disk.entries[LoadedFrom].content.t \in {"garbage", "scene"}
            \/ disk.entries[LoadedFrom].content.mesh.faces = <<>>)
               => cli.loaded.kind = "ValueError"
        /\ cli.loaded.kind \in {"returned", "FileNotFoundError", "ValueError"}
        /\ cli.loaded.kind = "returned" =>
               /\ heap.meshes[cli.loaded.mesh].vertices # <<>>
               /\ heap.meshes[cli.loaded.mesh].faces # <<>>
               /\ heap.meshes[cli.loaded.mesh].vertices
                      = disk.entries[LoadedFrom].content.mesh.vertices
               /\ heap.meshes[cli.loaded.mesh].faces
                      = disk.entries[LoadedFrom].content.mesh.faces
        /\ cli.loaded.kind # "returned" =>
               /\ cli.load_calls = 1
               /\ cli.pc \in {"exit", "returned"}
               /\ heap.meshes = <<>>
               /\ cli.pipeline_calls = 0

\* the command given a directory named mesh.obj: not found, not a format
\* error, and the command ends with a parameter error for input
C19_Witness ==
    /\ Started("load")
    /\ exists(disk, LoadedFrom) /\ ~is_file(disk, LoadedFrom)
    /\ ~Spells(LoadedFrom.suffix, STL)
    /\ cli.loaded.kind = "FileNotFoundError"
    /\ Exited /\ cli.exit_code = 2
    /\ cli.stderr[1].param_hint = "input"

----------------------------------------------------------------------------
(* Invocations at the same time *)

\* the heap every invocation starts from: the input mesh m and its metadata
StartHeap(m) == [meshes |-> <<m>>, dicts |-> <<LoadedMetadata>>]

\* what each call does on each input mesh when nothing else runs
AloneTable ==
    [c \in ParCalls, m \in LoadedMeshes |->
        IF c.op = "validate_parameters"
        THEN [h |-> StartHeap(m),
              out |-> validate_parameters(c.mode, c.shell_thickness, c.density,
                                          c.relief_depth, c.seeds)]
        ELSE run_pipeline(StartHeap(m), c.mode, InputMesh, c.shell_thickness, c.density,
                          c.relief_depth, c.seeds)]

Alone(f) == AloneTable[f.call, first]

\* the outcome apart from the identity of the returned object
Verdict(o) == [kind |-> o.kind, param_hint |-> o.param_hint, message |-> o.message,
               arg |-> o.arg]

\* the vertices, faces and metadata of mesh id in heap h
MeshValue(h, id) ==
    [vertices |-> h.meshes[id].vertices, faces |-> h.meshes[id].faces,
     metadata |-> h.dicts[h.meshes[id].metadata]]

Finished(i) == par[i].pc = "done"

\* C20: whatever else runs in between, a call of _validate_parameters or
\* run_pipeline ends as it would alone: same return or exception, and for a
\* transform the same vertices, faces and metadata; two calls with the same
\* arguments end the same; the shared input mesh is never changed.
C20_InvocationsIndependent ==
    /\ MeshValue(heap, InputMesh) = MeshValue(StartHeap(first), InputMesh)
    /\ \A i \in DOMAIN par :
           Finished(i) =>
               /\ Verdict(par[i].out) = Verdict(Alone(par[i]).out)
               /\ (par[i].call.op = "run_pipeline" /\ par[i].out.kind = "returned") =>
                      MeshValue(heap, par[i].out.mesh)
                          = MeshValue(Alone(par[i]).h, Alone(par[i]).out.mesh)
    /\ \A i, j \in DOMAIN par :
           (Finished(i) /\ Finished(j) /\ par[i].call = par[j].call) =>
               /\ Verdict(par[i].out) = Verdict(par[j].out)
               /\ par[i].out.kind = "returned" /\ par[i].call.op = "run_pipeline" =>
                      MeshValue(heap, par[i].out.mesh) = MeshValue(heap, par[j].out.mesh)

\* two transforms of the shared input, the second run entirely between the
\* copy and the metadata statement of the first
C20_Witness ==
    /\ Finished(1) /\ Finished(2)
    /\ par[1].out.kind = "returned" /\ par[2].out.kind = "returned"
    /\ par[1].call.op = "run_pipeline" /\ par[2].call.op = "run_pipeline"
    /\ Routed(par[1]) = RADIAL /\ Routed(par[2]) = MULTICENTER
    /\ par[1].result < par[2].result
    /\ heap.meshes[par[1].result].metadata > heap.meshes[par[2].result].metadata

----------------------------------------------------------------------------
(* The window's MainController: load_mesh, apply_voronoi and               *)
(* export_processed_mesh, called in any order by the window's handlers.    *)

MaxGuiCalls == 5

\* PreviewPlaceholder.update_scene: the scene is shown, RuntimeError when
\* the preview backend is missing, or the exception of a failed conversion
PreviewOutcomes == {"shown", "RuntimeError", "Exception"}

\* load_mesh: the file is read first; the three fields are assigned before
\* the preview is touched, the two buttons after it
load_mesh(c, h, d, path, preview) ==
    LET l == load_stl(h, d, path)
        held == [c EXCEPT !.source_path = Some(path),
                          !.source_mesh = l.out.mesh,
                          !.processed_mesh = 0]
    IN  IF l.out.kind # "returned"
        THEN [c |-> c, h |-> h, d |-> d, raised |-> l.out.kind]
        ELSE IF preview = "Exception"
        THEN [c |-> held, h |-> l.h, d |-> d, raised |-> "Exception"]
        ELSE [c |-> [held EXCEPT !.process_button = TRUE,
                                 !.export_button = FALSE,
                                 !.status = "Loaded"],
              h |-> l.h, d |-> d, raised |-> ""]

\* MainController._run_pipeline, the placeholder: a copy of the mesh whose
\* own metadata dictionary is updated in place
controller_run_pipeline(h, mesh, parameters, mode) ==
    LET c == copy_mesh(h, mesh)
        h1 == IF DOMAIN Metadata(c.h, c.id) = {}
              THEN set_metadata(c.h, c.id, Metadata(c.h, c.id))
              ELSE c.h
    IN  [h |-> [h1 EXCEPT !.dicts[h1.meshes[c.id].metadata] =
                              Merge(@, [voronoi_mode |-> mode,
                                        voronoi_parameters |-> parameters])],
         id |-> c.id]

\* apply_voronoi: refused while no mesh is held; the processed mesh is
\* assigned before the preview is touched, the export button after it
apply_voronoi(c, h, d, parameters, mode, preview) ==
    LET r == controller_run_pipeline(h, c.source_mesh, parameters, mode)
        held == [c EXCEPT !.status = "Applying Voronoi", !.processed_mesh = r.id]
    IN  IF c.source_mesh = 0 \/ c.source_path.none
        THEN [c |-> c, h |-> h, d |-> d, raised |-> "RuntimeError"]
        ELSE IF preview = "Exception"
        THEN [c |-> held, h |-> r.h, d |-> d, raised |-> "Exception"]
        ELSE [c |-> [held EXCEPT !.export_button = TRUE,
                                 !.status = "Voronoi preview updated."],
              h |-> r.h, d |-> d, raised |-> ""]

\* export_processed_mesh making the parent directory before it looks at
\* the processed mesh
export_processed_mesh_mkdir_first(c, h, d, destination, written) ==
    LET made == [d EXCEPT !.dirs = @ \cup {destination.parent}]
        file == File(Content("stl", export_stl(h.meshes[c.processed_mesh])))
    IN  IF c.processed_mesh = 0
        THEN [c |-> c, h |-> h, d |-> made, raised |-> "RuntimeError"]
        ELSE IF ~written
        THEN [c |-> c, h |-> h, d |-> made, raised |-> "Exception"]
        ELSE [c |-> [c EXCEPT !.status = "Exported"], h |-> h,
              d |-> [made EXCEPT !.entries = (destination :> file) @@ @],
              raised |-> ""]

\* export_processed_mesh: refused while no processed mesh is held; then the
\* parent directory is made and the mesh written; written says whether the
\* file system took the file
export_processed_mesh(c, h, d, destination, written) ==
    LET made == [d EXCEPT !.dirs = @ \cup {destination.parent}]
        file == File(Content("stl", export_stl(h.meshes[c.processed_mesh])))
    IN  IF c.processed_mesh = 0
        THEN [c |-> c, h |-> h, d |-> d, raised |-> "RuntimeError"]
        ELSE IF ~written
        THEN [c |-> c, h |-> h, d |-> made, raised |-> "Exception"]
        ELSE [c |-> [c EXCEPT !.status = "Exported"], h |-> h,
              d |-> [made EXCEPT !.entries = (destination :> file) @@ @],
              raised |-> ""]

\* a window just opened, on a disk with two STL files
InitGui ==
    /\ heap = [meshes |-> <<>>, dicts |-> <<>>]
    /\ pre = heap
    /\ call = NoCall
    /\ out = NotCalled
    /\ first = Triangle
    /\ chain = 0
    /\ cli = NoRun
    /\ disk = [EmptyDisk EXCEPT !.entries =
                  (ModelsMesh :> File(Content("stl", Kite)))
                  @@ (Path("models", <<"MESH">>, <<".", "S", "T", "L">>)
                         :> File(Content("stl", Triangle)))]
    /\ par = NoPar
    /\ gui = [NoCalls EXCEPT !.disk_before = disk]

\* a handler of the window has called the controller: r is what the call did
Handled(op, r) ==
    /\ gui.calls < MaxGuiCalls
    /\ heap' = r.h
    /\ pre' = heap
    /\ disk' = r.d
    /\ gui' = [c |-> r.c,
               op |-> op,
               raised |-> r.raised,
               loaded |-> IF op = "load_mesh" /\ Len(r.h.meshes) > Len(heap.meshes)
                          THEN Len(r.h.meshes) ELSE 0,
               made_from |-> IF op = "apply_voronoi" /\ r.c.processed_mesh # gui.c.processed_mesh
                             THEN gui.c.source_mesh
                             ELSE IF r.c.processed_mesh = 0 THEN 0 ELSE gui.made_from,
               before |-> gui.c,
               disk_before |-> disk,
               refused |-> IF r.raised \in {"RuntimeError", "FileNotFoundError", "ValueError"}
                           THEN gui.refused \cup {op} ELSE gui.refused,
               calls |-> gui.calls + 1]
    /\ UNCHANGED <<call, out, first, chain, cli, par>>

\* a file is opened or dropped on the window
GuiLoadMesh ==
    \E path \in InputPaths, preview \in PreviewOutcomes :
        Handled("load_mesh", load_mesh(gui.c, heap, disk, path, preview))

\* Apply: the values of the three parameter controls and the mode selected
GuiApplyVoronoi ==
    \E density \in {<<3, 5>>}, mode \in {"Surface", "Radial"}, preview \in PreviewOutcomes :
        Handled("apply_voronoi",
                apply_voronoi(gui.c, heap, disk,
                              ("Density" :> density) @@ ("Shell thickness" :> <<6, 5>>)
                                  @@ ("Relief depth" :> <<3, 5>>),
                              mode, preview))

\* Export: the dialog points to a new directory or to the source file
GuiExport ==
    \E destination \in {Path("out", <<"result">>, STL), ModelsMesh}, written \in BOOLEAN :
        Handled("export_processed_mesh",
                export_processed_mesh(gui.c, heap, disk, destination, written))

NextGui ==
    \/ GuiLoadMesh
    \/ GuiApplyVoronoi
    \/ GuiExport

SpecGui == InitGui /\ [][NextGui]_vars

----------------------------------------------------------------------------
(* The controller's buttons and meshes.                                    *)

\* the last call was a load_mesh whose file load gave a new source mesh
LoadedNewMesh == gui.op = "load_mesh" /\ gui.loaded # 0

\* the processed mesh held was made from the source mesh held
ProcessedIsCurrent ==
    /\ gui.c.processed_mesh # 0
    /\ gui.made_from = gui.c.source_mesh

\* C21: after any sequence of load_mesh, apply_voronoi and
\* export_processed_mesh calls, the ones that raise included, the export
\* button is enabled only if a processed mesh is held and it was made from
\* the source mesh now loaded; loading a new mesh always discards the
\* earlier processed mesh and disables export.
C21_ExportOnlyWithCurrentMesh ==
    /\ gui.c.export_button => ProcessedIsCurrent
    /\ LoadedNewMesh => (gui.c.processed_mesh = 0 /\ ~gui.c.export_button)

\* the part of C21 that the code keeps: a processed mesh that is held was
\* made from the source mesh held, and a new source mesh discards it
ProcessedNeverStale ==
    /\ gui.c.processed_mesh # 0 => ProcessedIsCurrent
    /\ LoadedNewMesh => gui.c.processed_mesh = 0

\* C23: the controller rejects calls made out of order without changing
\* state.  apply_voronoi before any mesh was loaded raises RuntimeError and
\* leaves the source mesh, the processed mesh and both buttons as they
\* were; export_processed_mesh with no processed mesh held raises
\* RuntimeError before any directory is made or file written; a load_mesh
\* whose file load fails leaves the source and processed meshes in place.
C23_OutOfOrderRejected ==
    /\ (gui.op = "apply_voronoi" /\ pre.meshes = <<>>) =>
           /\ gui.raised = "RuntimeError"
           /\ gui.c = gui.before
           /\ heap = pre
    /\ (gui.op = "export_processed_mesh" /\ gui.before.processed_mesh = 0) =>
           /\ gui.raised = "RuntimeError"
           /\ disk = gui.disk_before
           /\ gui.c = gui.before
    /\ (gui.op = "load_mesh" /\ gui.loaded = 0) =>
           /\ gui.raised \in {"FileNotFoundError", "ValueError"}
           /\ gui.c = gui.before
           /\ heap = pre

\* each of the three calls has been rejected, the last one a load_mesh of
\* a missing file while a source mesh and a processed mesh were held
C23_Witness ==
    /\ gui.refused = {"apply_voronoi", "export_processed_mesh", "load_mesh"}
    /\ gui.op = "load_mesh" /\ gui.raised = "FileNotFoundError"
    /\ gui.c.source_mesh # 0
    /\ gui.c.processed_mesh # 0
    /\ gui.c.export_button

----------------------------------------------------------------------------
(* The validator and the dispatcher on the same arguments.                 *)

\* the last call was run_pipeline with the value of a Mode member and
\* arguments that validate_parameters accepts
AcceptedDispatch ==
    /\ Dispatched
    /\ call.mode \in Mode
    /\ ValidatorVerdict.kind = "returned"

\* C22: whenever validate_parameters accepts (mode, shell_thickness,
\* density, relief_depth, seeds), run_pipeline called with mode.value and
\* the same parameters on a loaded mesh raises no PipelineError: neither
\* the unsupported-mode branch nor the empty-seeds branch is reached, and
\* in surface mode the relief translation is always applied.
C22_AcceptedParametersDispatch ==
    AcceptedDispatch =>
        /\ out.kind = "returned"
        /\ call.mode = MULTICENTER => call.seeds # <<>>
        /\ call.mode = SURFACE =>
               /\ RGt(call.relief_depth, Zero)
               /\ SurfaceOffset # VZero
               /\ \A i \in DOMAIN Given.vertices :
                      Result.vertices[i] = VAdd(VScale(Given.vertices[i], SurfaceScale),
                                                SurfaceOffset)

\* accepted surface parameters: the result is lifted by 0.1 * relief_depth
\* on top of the scaling
C22_Witness ==
    /\ AcceptedDispatch
    /\ call.mode = SURFACE
    /\ call.relief_depth = <<10, 1>>
    /\ out.kind = "returned"
    /\ Result.vertices[1][3] = RAdd(RMul(Given.vertices[1][3], SurfaceScale), One)

----------------------------------------------------------------------------
(* The scale factor of the three operators.                                *)

\* the factor the operator of the last call applies
AppliedScale ==
    IF SurfaceCalled THEN SurfaceScale
    ELSE IF RadialCalled THEN RadialScale
    ELSE MulticenterScale

\* the inputs that enter the factor are zero once clamped
ClampedInputsZero ==
    /\ Clamp(call.shell_thickness) = Zero
    /\ SurfaceCalled => Clamp(call.density) = Zero

\* the vector from vertex j to vertex i of mesh m
Edge(m, i, j) == VSub(m.vertices[i], m.vertices[j])

\* C24: for every mode and all parameter values, negative shell_thickness
\* or density included (they reach the operators unvalidated), the uniform
\* scale factor that the operator applies is at least 1, negative inputs
\* being clamped to 0 first, so that no transform shrinks, mirrors or
\* collapses the mesh; the factor is exactly 1 when the clamped inputs are 0.
C24_ScaleAtLeastOne ==
    (Transformed /\ out.kind = "returned") =>
        /\ RGeq(AppliedScale, One)
        /\ \A i, j \in DOMAIN Given.vertices :
               Edge(Result, i, j) =
                   VScale(Edge(IF RadialCalled THEN Rotated ELSE Given, i, j), AppliedScale)
        /\ ClampedInputsZero =>
               /\ AppliedScale = One
               /\ \A i, j \in DOMAIN Given.vertices :
                      Edge(Result, i, j) = Edge(IF RadialCalled THEN Rotated ELSE Given, i, j)

\* shell_thickness -1 and density -1/2 given to the surface operator: both
\* are clamped, the factor is 1 and every edge keeps its length and direction
C24_Witness ==
    /\ call.op = "apply_surface_voronoi"
    /\ call.shell_thickness = <<-1, 1>>
    /\ call.density = <<-1, 2>>
    /\ out.kind = "returned"
    /\ AppliedScale = One
    /\ Edge(Result, 2, 1) = Edge(Given, 2, 1)
    /\ Edge(Given, 2, 1) # VZero

====
